---- MODULE Spec2Model ----
(***************************************************************************)
(* PyBlade template engine: the sandboxed expression evaluator             *)
(* (engine/sandbox.py), the node renderers of TemplateProcessor            *)
(* (engine/processor.py), of Renderer (engine/new.py) and of the AST nodes *)
(* (engine/nodes.py), and the render cache in front of them.               *)
(*                                                                         *)
(* Python values are tagged tuples <<tag, payload...>>; strings are TLA+   *)
(* strings, identifiers included, so that str.startswith, html.escape and  *)
(* "".join are computed character by character.                            *)
(***************************************************************************)
EXTENDS Integers, Sequences, FiniteSets, TLC

VARIABLES
    expression,     \* SafeEvaluator.evaluate: the parsed expression
    evalContext,    \* SafeEvaluator.evaluate: the context mapping
    evalResult,     \* what evaluate returned or raised, and the callables it invoked
    epc,            \* "ready" before evaluate runs, "done" after
    template,       \* render: the template of the call, as the node list Parser.parse returns
    contextIn,      \* render: the context dict as the caller passed it
    contextOut,     \* render: the same dict object, as the call left it
    output,         \* render: the returned text, or the exception that left the call
    rpc,            \* "ready" before a render call, afterwards the class that rendered
    signalBase,     \* the class BreakLoop and ContinueLoop derive from
    cache,          \* TemplateProcessor.cache: its entries, oldest insertion first
    now,            \* the clock the cache reads
    last,           \* the last call made on the processor's cache, and the entries before it
    sourceText,     \* the template source of a render call, as the pieces the lexer splits it into
    errorBase,      \* the class DirectiveParsingError and TemplateRenderError derive from
    debug,          \* the debug flag the host constructed the engine with
    selfContext,    \* TemplateProcessor.context (self.context), shared by the calls in flight
    ast,            \* the node list concurrent renders share, fields as they are now
    inflight,       \* the render calls in flight: each one's arguments, position and locals
    lexerText,      \* new.Lexer.text: the template text given to the lexer
    lexerResult,    \* what Lexer.tokenize returned (the token list) or raised
    parserResult,   \* where Parser.parse stopped: its position, and the error it raised
    lpc             \* "ready" before tokenize, "lexed" after it, "parsed" once parse was entered

evalVars == <<expression, evalContext, evalResult, epc>>
renderVars == <<template, contextIn, contextOut, output, rpc, signalBase>>
cacheVars == <<cache, now, last>>
pipeVars == <<sourceText, errorBase, debug>>
threadVars == <<selfContext, ast, inflight>>
lexVars == <<lexerText, lexerResult, parserResult, lpc>>
vars == <<evalVars, renderVars, cacheVars, pipeVars, threadVars, lexVars>>

----------------------------------------------------------------------------
\* Python values

VNone == <<"None">>
VInt(n) == <<"int", n>>
VBool(b) == <<"bool", b>>
VStr(s) == <<"str", s>>
VList(xs) == <<"list", xs>>
VTuple(xs) == <<"tuple", xs>>
VDict(items) == <<"dict", items>>          \* items: <<key, value>> pairs in insertion order
VObj(id) == <<"obj", id>>                  \* an instance of a host class
VMethod(owner, name) == <<"method", name, owner>>   \* a bound method: callable, has __self__
VBuiltin(name) == <<"builtin", name>>      \* a function of SafeEvaluator._builtins
VFilter(name) == <<"filter", name>>        \* a function of the filter registry

TypeOf(v) == v[1]

\* the mapping type used for contexts: a function from names to values
CtxGet(context, name) == IF name \in DOMAIN context THEN context[name] ELSE VNone
EmptyCtx == [n \in {} |-> VNone]
CtxSet(context, name, value) ==
    [n \in DOMAIN context \cup {name} |-> IF n = name THEN value ELSE context[n]]
CtxPop(context, name) == [n \in DOMAIN context \ {name} |-> context[n]]

RECURSIVE DictHas(_, _)
DictHas(items, key) ==
    IF items = <<>> THEN FALSE
    ELSE Head(items)[1] = key \/ DictHas(Tail(items), key)

RECURSIVE DictGet(_, _)
DictGet(items, key) ==
    IF items = <<>> THEN VNone
    ELSE IF Head(items)[1] = key THEN Head(items)[2] ELSE DictGet(Tail(items), key)

\* bool(value)
Truthy(v) ==
    CASE TypeOf(v) = "None" -> FALSE
      [] TypeOf(v) = "int" -> v[2] # 0
      [] TypeOf(v) = "bool" -> v[2]
      [] TypeOf(v) = "str" -> v[2] # ""
      [] TypeOf(v) \in {"list", "tuple", "dict"} -> v[2] # <<>>
      [] OTHER -> TRUE

RECURSIVE IntStr(_)
IntStr(n) ==
    IF n < 0 THEN "-" \o IntStr(0 - n)
    ELSE IF n < 10 THEN SubSeq("0123456789", n + 1, n + 1)
    ELSE IntStr(n \div 10) \o IntStr(n % 10)

\* str(value) and repr(value)
RECURSIVE StrOf(_), ReprOf(_), ReprJoin(_)
ReprJoin(xs) ==
    IF xs = <<>> THEN ""
    ELSE IF Len(xs) = 1 THEN ReprOf(xs[1])
    ELSE ReprOf(Head(xs)) \o ", " \o ReprJoin(Tail(xs))
ReprOf(v) == IF TypeOf(v) = "str" THEN "'" \o v[2] \o "'" ELSE StrOf(v)
StrOf(v) ==
    CASE TypeOf(v) = "None" -> "None"
      [] TypeOf(v) = "int" -> IntStr(v[2])
      [] TypeOf(v) = "bool" -> IF v[2] THEN "True" ELSE "False"
      [] TypeOf(v) = "str" -> v[2]
      [] TypeOf(v) = "list" -> "[" \o ReprJoin(v[2]) \o "]"
      [] TypeOf(v) = "tuple" -> "(" \o ReprJoin(v[2]) \o ")"
      [] TypeOf(v) = "obj" -> "<" \o v[2] \o " object>"
      [] TypeOf(v) = "method" -> "<bound method " \o v[2] \o ">"
      [] TypeOf(v) \in {"builtin", "filter"} -> "<function " \o v[2] \o ">"
      [] OTHER -> "{...}"

----------------------------------------------------------------------------
\* The Python object model the evaluator reflects on (getattr, hasattr, callable)

Letters == [lower |-> "abcdefghijklmnopqrstuvwxyz", upper |-> "ABCDEFGHIJKLMNOPQRSTUVWXYZ"]

RECURSIVE IndexIn(_, _, _)
IndexIn(c, s, i) ==
    IF i > Len(s) THEN 0
    ELSE IF SubSeq(s, i, i) = c THEN i ELSE IndexIn(c, s, i + 1)

RECURSIVE MapCase(_, _, _)
MapCase(s, from, to) ==
    IF s = "" THEN ""
    ELSE LET c == SubSeq(s, 1, 1)
             i == IndexIn(c, from, 1)
         IN  (IF i = 0 THEN c ELSE SubSeq(to, i, i)) \o MapCase(SubSeq(s, 2, Len(s)), from, to)

\* str.startswith("_")
StartsWithUnderscore(name) == Len(name) > 0 /\ SubSeq(name, 1, 1) = "_"

\* The host object a view puts into a context: public and private data, a public
\* method that changes host state and a private method that returns private state.
HostData(id) ==
    IF id = "user" THEN ("name" :> VStr("bob") @@ "_private" :> VStr("secret"))
    ELSE [n \in {} |-> VNone]
HostMethods(id) == IF id = "user" THEN {"delete", "_hidden"} ELSE {}

\* the methods of the builtin types
MethodsOf(type) ==
    CASE type = "str" -> {"upper", "lower", "strip", "lstrip", "rstrip", "title", "capitalize",
                          "casefold", "swapcase", "startswith", "endswith", "replace",
                          "format", "split", "join", "encode", "count", "index", "find"}
      [] type = "list" -> {"count", "index", "append", "pop", "clear", "sort", "remove"}
      [] type = "tuple" -> {"count", "index"}
      [] type = "dict" -> {"get", "keys", "values", "items", "pop", "clear", "update",
                           "setdefault"}
      [] type = "int" -> {"bit_length", "to_bytes"}
      [] OTHER -> {}

AttributeError == <<"AttributeError">>

\* getattr(owner, name); AttributeError when owner has no such attribute
GetAttr(owner, name) ==
    IF name = "__class__" THEN <<"class", TypeOf(owner)>>
    ELSE CASE TypeOf(owner) = "obj" ->
                IF name \in DOMAIN HostData(owner[2]) THEN HostData(owner[2])[name]
                ELSE IF name \in HostMethods(owner[2]) THEN VMethod(owner, name)
                ELSE AttributeError
           [] TypeOf(owner) = "str" ->
                IF name \in MethodsOf("str") THEN VMethod(owner, name) ELSE AttributeError
           [] TypeOf(owner) = "list" ->
                IF name \in MethodsOf("list") THEN VMethod(owner, name) ELSE AttributeError
           [] TypeOf(owner) = "tuple" ->
                IF name \in MethodsOf("tuple") THEN VMethod(owner, name) ELSE AttributeError
           [] TypeOf(owner) = "dict" ->
                IF name \in MethodsOf("dict") THEN VMethod(owner, name) ELSE AttributeError
           [] TypeOf(owner) \in {"int", "bool"} ->
                IF name \in MethodsOf("int") THEN VMethod(owner, name) ELSE AttributeError
           [] OTHER -> AttributeError

HasAttr(owner, name) == GetAttr(owner, name) # AttributeError
Callable(v) == TypeOf(v) \in {"method", "builtin", "filter", "class"}
HasSelf(v) == TypeOf(v) \in {"method", "builtin"}

\* what a call returns or raises
Returned(v) == [v |-> v, err |-> ""]
Raised(e) == [v |-> VNone, err |-> e]

RECURSIVE CountOf(_, _)
CountOf(xs, x) ==
    IF xs = <<>> THEN 0
    ELSE (IF Head(xs) = x THEN 1 ELSE 0) + CountOf(Tail(xs), x)

RECURSIVE Firsts(_)
Firsts(items) == IF items = <<>> THEN <<>> ELSE <<Head(items)[1]>> \o Firsts(Tail(items))
RECURSIVE Seconds(_)
Seconds(items) == IF items = <<>> THEN <<>> ELSE <<Head(items)[2]>> \o Seconds(Tail(items))

\* len(value)
PyLen(v) ==
    CASE TypeOf(v) = "str" -> Returned(VInt(Len(v[2])))
      [] TypeOf(v) \in {"list", "tuple", "dict"} -> Returned(VInt(Len(v[2])))
      [] OTHER -> Raised("TypeError")

\* owner.name(*args) for a bound method
CallMethod(owner, name, args) ==
    CASE TypeOf(owner) = "obj" /\ name = "delete" -> Returned(VStr("deleted"))
      [] TypeOf(owner) = "obj" /\ name = "_hidden" -> Returned(HostData(owner[2])["_private"])
      [] TypeOf(owner) = "str" /\ name = "upper" ->
            IF args = <<>> THEN Returned(VStr(MapCase(owner[2], Letters.lower, Letters.upper)))
            ELSE Raised("TypeError")
      [] TypeOf(owner) = "str" /\ name \in {"lower", "casefold"} ->
            IF args = <<>> THEN Returned(VStr(MapCase(owner[2], Letters.upper, Letters.lower)))
            ELSE Raised("TypeError")
      [] TypeOf(owner) = "str" /\ name = "startswith" ->
            IF Len(args) = 1 /\ TypeOf(args[1]) = "str"
            THEN Returned(VBool(Len(args[1][2]) <= Len(owner[2])
                                /\ SubSeq(owner[2], 1, Len(args[1][2])) = args[1][2]))
            ELSE Raised("TypeError")
      [] TypeOf(owner) \in {"list", "tuple"} /\ name = "count" ->
            IF Len(args) = 1 THEN Returned(VInt(CountOf(owner[2], args[1])))
            ELSE Raised("TypeError")
      [] TypeOf(owner) = "dict" /\ name = "get" ->
            IF Len(args) = 1 THEN Returned(DictGet(owner[2], args[1]))
            ELSE Raised("TypeError")
      [] TypeOf(owner) = "dict" /\ name = "keys" ->
            IF args = <<>> THEN Returned(VList(Firsts(owner[2]))) ELSE Raised("TypeError")
      [] TypeOf(owner) = "dict" /\ name = "values" ->
            IF args = <<>> THEN Returned(VList(Seconds(owner[2]))) ELSE Raised("TypeError")
      [] OTHER -> Returned(<<"ret", name>>)

RECURSIVE RangeList(_, _)
RangeList(i, n) == IF i >= n THEN <<>> ELSE <<VInt(i)>> \o RangeList(i + 1, n)

\* SafeEvaluator._builtins
builtins == {"len", "range", "type", "sum", "min", "max", "enumerate", "bool", "abs"}

CallBuiltin(name, args) ==
    CASE name = "len" -> IF Len(args) = 1 THEN PyLen(args[1]) ELSE Raised("TypeError")
      [] name = "bool" ->
            IF Len(args) = 1 THEN Returned(VBool(Truthy(args[1]))) ELSE Raised("TypeError")
      [] name = "abs" ->
            IF Len(args) = 1 /\ TypeOf(args[1]) = "int"
            THEN Returned(VInt(IF args[1][2] < 0 THEN 0 - args[1][2] ELSE args[1][2]))
            ELSE Raised("TypeError")
      [] name = "range" ->
            IF Len(args) = 1 /\ TypeOf(args[1]) = "int"
            THEN Returned(VList(RangeList(0, args[1][2])))
            ELSE Raised("TypeError")
      [] name = "type" ->
            IF Len(args) = 1 THEN Returned(<<"class", TypeOf(args[1])>>)
            ELSE Raised("TypeError")
      [] OTHER -> Returned(<<"ret", name>>)

\* the filter registry after filters.py is imported
registeredFilters ==
    {"upper", "lower", "title", "capitalize", "strip", "truncate", "excerpt", "limit",
     "slugify", "add", "subtract", "multiply", "divide", "currency", "percentage",
     "length", "count", "first", "last", "join", "format", "humanize"}

FiltersHas(name) == name \in registeredFilters

\* filter_func(owner, *args)
CallFilter(name, args) ==
    CASE name = "upper" ->
            IF Len(args) = 1
            THEN Returned(VStr(MapCase(StrOf(args[1]), Letters.lower, Letters.upper)))
            ELSE Raised("TypeError")
      [] name = "lower" ->
            IF Len(args) = 1
            THEN Returned(VStr(MapCase(StrOf(args[1]), Letters.upper, Letters.lower)))
            ELSE Raised("TypeError")
      [] name \in {"length", "count"} ->
            IF Len(args) = 1 THEN PyLen(args[1]) ELSE Raised("TypeError")
      [] name = "first" ->
            IF Len(args) # 1 THEN Raised("TypeError")
            ELSE IF ~Truthy(args[1]) THEN Returned(VNone)
            ELSE IF TypeOf(args[1]) = "str" THEN Returned(VStr(SubSeq(args[1][2], 1, 1)))
            ELSE IF TypeOf(args[1]) \in {"list", "tuple"} THEN Returned(args[1][2][1])
            ELSE Raised("TypeError")
      [] OTHER -> Returned(<<"ret", name>>)

\* func(*args) for any value
Invoke(callee, args) ==
    CASE TypeOf(callee) = "method" -> CallMethod(callee[3], callee[2], args)
      [] TypeOf(callee) = "builtin" -> CallBuiltin(callee[2], args)
      [] TypeOf(callee) = "filter" -> CallFilter(callee[2], args)
      [] TypeOf(callee) = "class" -> Returned(<<"ret", callee[2]>>)
      [] OTHER -> Raised("TypeError")

----------------------------------------------------------------------------
\* SafeEvaluator (engine/sandbox.py).  An expression is the tree ast.parse returns:
\* a record with the node class in k and the fields of that class.  Calls carry
\* positional arguments only.  An evaluation yields the value or the raised
\* exception class, and the sequence of callables it invoked on the way.

Const(v) == [k |-> "Constant", value |-> v]
Name(id) == [k |-> "Name", id |-> id]
Attribute(value, attr) == [k |-> "Attribute", value |-> value, attr |-> attr]
Call(func, args) == [k |-> "Call", func |-> func, args |-> args]
BoolOp(op, values) == [k |-> "BoolOp", op |-> op, values |-> values]
UnaryOp(op, operand) == [k |-> "UnaryOp", op |-> op, operand |-> operand]
BinOp(left, op, right) == [k |-> "BinOp", left |-> left, op |-> op, right |-> right]
Compare(left, ops, comparators) ==
    [k |-> "Compare", left |-> left, ops |-> ops, comparators |-> comparators]
Subscript(value, slice) == [k |-> "Subscript", value |-> value, slice |-> slice]
ListExpr(elts) == [k |-> "List", elts |-> elts]
TupleExpr(elts) == [k |-> "Tuple", elts |-> elts]

Ok(v, calls) == [v |-> v, err |-> "", calls |-> calls]
Raise(e, calls) == [v |-> VNone, err |-> e, calls |-> calls]

safe_methods ==
    << <<"str", {"upper", "lower", "strip", "lstrip", "rstrip", "title", "capitalize",
                 "casefold", "swapcase", "startswith", "endswith", "replace"}>>,
       <<"list", {"count", "index"}>>,
       <<"tuple", {"count", "index"}>>,
       <<"dict", {"get", "keys", "values", "items"}>> >>

RECURSIVE SafeIn(_, _, _)
SafeIn(table, owner, method_name) ==
    IF table = <<>> THEN FALSE
    ELSE IF TypeOf(owner) = Head(table)[1] THEN method_name \in Head(table)[2]
    ELSE SafeIn(Tail(table), owner, method_name)

is_safe_method(owner, method_name) == SafeIn(safe_methods, owner, method_name)

IsNumber(v) == TypeOf(v) \in {"int", "bool"}
NumberOf(v) == IF TypeOf(v) = "bool" THEN (IF v[2] THEN 1 ELSE 0) ELSE v[2]
PyEq(a, b) == IF IsNumber(a) /\ IsNumber(b) THEN NumberOf(a) = NumberOf(b) ELSE a = b

\* SafeEvaluator._operators applied to evaluated operands
ApplyBinary(op, a, b) ==
    CASE op = "And" -> Returned(IF Truthy(a) THEN b ELSE a)
      [] op = "Or" -> Returned(IF Truthy(a) THEN a ELSE b)
      [] op = "Eq" -> Returned(VBool(PyEq(a, b)))
      [] op = "NotEq" -> Returned(VBool(~PyEq(a, b)))
      [] op \in {"Lt", "LtE", "Gt", "GtE"} ->
            IF IsNumber(a) /\ IsNumber(b)
            THEN Returned(VBool(CASE op = "Lt" -> NumberOf(a) < NumberOf(b)
                                  [] op = "LtE" -> NumberOf(a) <= NumberOf(b)
                                  [] op = "Gt" -> NumberOf(a) > NumberOf(b)
                                  [] OTHER -> NumberOf(a) >= NumberOf(b)))
            ELSE Raised("TypeError")
      [] op = "Add" ->
            IF IsNumber(a) /\ IsNumber(b) THEN Returned(VInt(NumberOf(a) + NumberOf(b)))
            ELSE IF TypeOf(a) = "str" /\ TypeOf(b) = "str" THEN Returned(VStr(a[2] \o b[2]))
            ELSE Raised("TypeError")
      [] op = "Sub" ->
            IF IsNumber(a) /\ IsNumber(b) THEN Returned(VInt(NumberOf(a) - NumberOf(b)))
            ELSE Raised("TypeError")
      [] OTHER -> Raised("TypeError")

ApplyUnary(op, a) ==
    CASE op = "Not" -> Returned(VBool(~Truthy(a)))
      [] op = "USub" ->
            IF IsNumber(a) THEN Returned(VInt(0 - NumberOf(a))) ELSE Raised("TypeError")
      [] OTHER -> Raised("TypeError")

\* target[key]
GetItem(target, key) ==
    CASE TypeOf(target) = "dict" ->
            IF DictHas(target[2], key) THEN Returned(DictGet(target[2], key))
            ELSE Raised("KeyError")
      [] TypeOf(target) \in {"list", "tuple"} ->
            IF TypeOf(key) = "int" /\ key[2] >= 0 /\ key[2] < Len(target[2])
            THEN Returned(target[2][key[2] + 1])
            ELSE Raised("IndexError")
      [] TypeOf(target) = "str" ->
            IF TypeOf(key) = "int" /\ key[2] >= 0 /\ key[2] < Len(target[2])
            THEN Returned(VStr(SubSeq(target[2], key[2] + 1, key[2] + 1)))
            ELSE Raised("IndexError")
      [] OTHER -> Raised("TypeError")

\* result = values[0]; for v in values[1:]: result = op(result, v)
RECURSIVE FoldBool(_, _, _)
FoldBool(op, result, rest) ==
    IF rest = <<>> THEN result
    ELSE FoldBool(op, ApplyBinary(op, result, Head(rest)).v, Tail(rest))

RECURSIVE eval_node(_, _), EvalAll(_, _), EvalCompare(_, _, _, _, _)

\* a call's outcome as the outcome of the evaluation that made it
Outcome(r, calls) == [v |-> r.v, err |-> r.err, calls |-> calls]

\* [self._eval_node(x, context) for x in nodes]: left to right, up to the first raise
EvalAll(nodes, context) ==
    IF nodes = <<>> THEN [vs |-> <<>>, err |-> "", calls |-> <<>>]
    ELSE LET Rest(h, t) == [vs |-> <<h.v>> \o t.vs, err |-> t.err, calls |-> h.calls \o t.calls]
             First(h) == IF h.err # "" THEN [vs |-> <<>>, err |-> h.err, calls |-> h.calls]
                         ELSE Rest(h, EvalAll(Tail(nodes), context))
         IN  First(eval_node(Head(nodes), context))

\* the loop over zip(node.ops, node.comparators), left already evaluated
EvalCompare(left, ops, comparators, context, calls) ==
    IF ops = <<>> \/ comparators = <<>> THEN Ok(VBool(TRUE), calls)
    ELSE IF Head(ops) \notin {"Eq", "NotEq", "Lt", "LtE", "Gt", "GtE"}
         THEN Raise("TypeError", calls)
    ELSE LET Compared(r, c) ==
                 IF c.err # "" THEN Raise(c.err, calls \o r.calls)
                 ELSE IF ~Truthy(c.v) THEN Ok(VBool(FALSE), calls \o r.calls)
                 ELSE EvalCompare(r.v, Tail(ops), Tail(comparators), context, calls \o r.calls)
             Right(r) == IF r.err # "" THEN Raise(r.err, calls \o r.calls)
                         ELSE Compared(r, ApplyBinary(Head(ops), left, r.v))
         IN  Right(eval_node(Head(comparators), context))

\* value() for a safe bound method; the method itself when the call is a TypeError
AutoCalled(value, r, calls) ==
    IF r.err = "TypeError" THEN Ok(value, calls \o <<value>>)
    ELSE Outcome(r, calls \o <<value>>)

\* getattr(owner, attr_name) done: the filter when the owner has no such attribute
AttributeLooked(attr_name, owner, value, calls) ==
    IF value = AttributeError
    THEN IF FiltersHas(attr_name)
         THEN Outcome(CallFilter(attr_name, <<owner>>), calls \o <<VFilter(attr_name)>>)
         ELSE Ok(VNone, calls)
    ELSE IF Callable(value) /\ HasSelf(value) /\ is_safe_method(owner, attr_name)
         THEN AutoCalled(value, Invoke(value, <<>>), calls)
    ELSE Ok(value, calls)

\* the owner evaluated: None stays None, a dict key goes before getattr
AttributeOnOwner(attr_name, o) ==
    IF o.err # "" THEN o
    ELSE IF o.v = VNone THEN Ok(VNone, o.calls)
    ELSE IF TypeOf(o.v) = "dict" /\ DictHas(o.v[2], VStr(attr_name))
         THEN Ok(DictGet(o.v[2], VStr(attr_name)), o.calls)
    ELSE AttributeLooked(attr_name, o.v, GetAttr(o.v, attr_name), o.calls)

\* the ast.Attribute branch
EvalAttribute(node, context) ==
    IF StartsWithUnderscore(node.attr) THEN Raise("AttributeError", <<>>)
    ELSE AttributeOnOwner(node.attr, eval_node(node.value, context))

\* owner.attr_name(*args), args evaluated
MethodCalled(attr_name, owner, method, a, calls) ==
    IF a.err # "" THEN Raise(a.err, calls)
    ELSE IF method # AttributeError /\ Callable(method)
         THEN IF is_safe_method(owner, attr_name)
              THEN Outcome(Invoke(method, a.vs), calls \o <<method>>)
              ELSE Raise("PermissionError", calls)
    ELSE IF FiltersHas(attr_name)
         THEN Outcome(CallFilter(attr_name, <<owner>> \o a.vs),
                      calls \o <<VFilter(attr_name)>>)
    ELSE Ok(VNone, calls)

\* the owner of the called attribute evaluated, then the arguments
MethodOnOwner(node, context, o) ==
    LET OnArgs(a) ==
            MethodCalled(node.func.attr, o.v, GetAttr(o.v, node.func.attr), a, o.calls \o a.calls)
    IN  IF o.err # "" THEN o
        ELSE IF o.v = VNone THEN Ok(VNone, o.calls)
        ELSE OnArgs(EvalAll(node.args, context))

\* func(*args), func and args evaluated
FunctionCalled(f, a) ==
    IF a.err # "" THEN Raise(a.err, f.calls \o a.calls)
    ELSE IF ~Callable(f.v) THEN Raise("TypeError", f.calls \o a.calls)
    ELSE Outcome(Invoke(f.v, a.vs), f.calls \o a.calls \o <<f.v>>)

FunctionOnFunc(node, context, f) ==
    IF f.err # "" THEN f
    ELSE IF f.v = VNone THEN Raise("TypeError", f.calls)
    ELSE FunctionCalled(f, EvalAll(node.args, context))

\* the ast.Call branch
EvalCall(node, context) ==
    IF node.func.k = "Attribute"
    THEN MethodOnOwner(node, context, eval_node(node.func.value, context))
    ELSE FunctionOnFunc(node, context, eval_node(node.func, context))

\* SafeEvaluator._eval_node
eval_node(node, context) ==
    CASE node.k = "Constant" -> Ok(node.value, <<>>)
      [] node.k = "Name" ->
            IF node.id \in builtins THEN Ok(VBuiltin(node.id), <<>>)
            ELSE Ok(CtxGet(context, node.id), <<>>)
      [] node.k = "Attribute" -> EvalAttribute(node, context)
      [] node.k = "Call" -> EvalCall(node, context)
      [] node.k = "BinOp" ->
            LET Both(l, r) == IF r.err # "" THEN Raise(r.err, l.calls \o r.calls)
                              ELSE Outcome(ApplyBinary(node.op, l.v, r.v), l.calls \o r.calls)
                Left(l) == IF l.err # "" THEN l ELSE Both(l, eval_node(node.right, context))
            IN  Left(eval_node(node.left, context))
      [] node.k = "UnaryOp" ->
            LET Operand(o) == IF o.err # "" THEN o
                              ELSE Outcome(ApplyUnary(node.op, o.v), o.calls)
            IN  Operand(eval_node(node.operand, context))
      [] node.k = "BoolOp" ->
            LET Values(a) == IF a.err # "" THEN Raise(a.err, a.calls)
                             ELSE Ok(FoldBool(node.op, a.vs[1], Tail(a.vs)), a.calls)
            IN  Values(EvalAll(node.values, context))
      [] node.k = "Compare" ->
            LET Left(l) == IF l.err # "" THEN l
                           ELSE EvalCompare(l.v, node.ops, node.comparators, context, l.calls)
            IN  Left(eval_node(node.left, context))
      [] node.k = "Subscript" ->
            LET Item(x, calls) == IF x.err # "" THEN Raise("TypeError", calls)
                                  ELSE Ok(x.v, calls)
                Keyed(t, i) == IF i.err # "" THEN Raise(i.err, t.calls \o i.calls)
                               ELSE Item(GetItem(t.v, i.v), t.calls \o i.calls)
                Target(t) ==
                    IF t.err # "" THEN t
                    ELSE IF t.v = VNone THEN Ok(VNone, t.calls)
                    ELSE Keyed(t, IF node.slice.k = "Constant" THEN Ok(node.slice.value, <<>>)
                                  ELSE eval_node(node.slice, context))
            IN  Target(eval_node(node.value, context))
      [] node.k = "List" ->
            LET Elts(a) == IF a.err # "" THEN Raise(a.err, a.calls) ELSE Ok(VList(a.vs), a.calls)
            IN  Elts(EvalAll(node.elts, context))
      [] node.k = "Tuple" ->
            LET Elts(a) == IF a.err # "" THEN Raise(a.err, a.calls) ELSE Ok(VTuple(a.vs), a.calls)
            IN  Elts(EvalAll(node.elts, context))
      [] OTHER -> Raise("TypeError", <<>>)

\* SafeEvaluator.evaluate on the tree of a non-empty expression string
evaluate(tree, context) == eval_node(tree, context)

----------------------------------------------------------------------------
\* The evaluator under test: one evaluate call per expression and context

MaxExprDepth == 2      \* how many syntactic layers are wrapped around an access or call

\* a context as a view builds it: a model instance, plain data, a mapping that holds
\* a bound method of the instance, and that bound method under a name of its own
HostContext ==
    "user" :> VObj("user") @@ "s" :> VStr("ab") @@ "n" :> VInt(1) @@
    "d" :> VDict(<< <<VStr("name"), VStr("bob")>>,
                    <<VStr("run"), VMethod(VObj("user"), "delete")>> >>) @@
    "m" :> VMethod(VObj("user"), "delete")

EvalContexts == {HostContext, EmptyCtx}

EvalNames == {"user", "s", "d", "m", "n", "len", "missing"}
AttrNames == {"name", "_private", "delete", "_hidden", "upper", "format", "length",
              "run", "__class__", "nosuch"}

Accesses ==
    {Name(n) : n \in EvalNames}
    \cup {Attribute(Name(n), a) : n \in EvalNames, a \in AttrNames}
    \cup {Subscript(Name("d"), Const(VStr(key))) : key \in {"run", "name"}}

\* one more layer of syntax around e
Wrappings(e) ==
    {Call(e, <<>>), Call(e, <<Const(VStr("a"))>>),
     Attribute(e, "upper"), Attribute(e, "_private"),
     BoolOp("Or", <<e, Const(VInt(0))>>),
     UnaryOp("Not", e),
     Compare(Const(VInt(1)), <<"Gt", "Gt">>, <<Const(VInt(2)), e>>),
     Compare(Const(VInt(1)), <<"Lt", "Eq">>, <<Const(VInt(2)), e>>),
     ListExpr(<<e>>)}

RECURSIVE ExprsUpTo(_)
ExprsUpTo(depth) ==
    IF depth = 0 THEN Accesses
    ELSE LET inner == ExprsUpTo(depth - 1)
         IN  inner \cup UNION {Wrappings(e) : e \in inner}

\* at full depth only the call of a wrapped access is added
Expressions ==
    ExprsUpTo(MaxExprDepth - 1)
    \cup {Call(e, <<>>) : e \in ExprsUpTo(MaxExprDepth - 1)}

NoResult == [v |-> VNone, err |-> "", calls |-> <<>>]

\* no render call and no TemplateProcessor yet
\* no call made on the cache yet
NoCall ==
    [op |-> "none", source |-> <<>>, ctx |-> EmptyCtx, out |-> "", exc |-> "",
     hit |-> FALSE, time |-> 0, before |-> <<>>]

\* no text given to new.Lexer yet
NoLexer ==
    /\ lexerText = ""
    /\ lexerResult = [tokens |-> <<>>, err |-> ""]
    /\ parserResult = [pos |-> 0, err |-> "", returns |-> TRUE]
    /\ lpc = "idle"

\* no source given and no call in flight
NoPipeline ==
    /\ sourceText = <<>>
    /\ errorBase = "Exception"
    /\ debug = FALSE
NoThreads ==
    /\ selfContext = EmptyCtx
    /\ ast = <<>>
    /\ inflight = <<>>

NoRender ==
    /\ NoPipeline /\ NoThreads
    /\ template = <<>>
    /\ contextIn = EmptyCtx
    /\ contextOut = EmptyCtx
    /\ output = [out |-> "", exc |-> ""]
    /\ rpc = "ready"
    /\ signalBase = "Exception"
    /\ cache = <<>>
    /\ now = 0
    /\ last = NoCall

InitEval ==
    /\ expression \in Expressions
    /\ evalContext \in EvalContexts
    /\ evalResult = NoResult
    /\ epc = "ready"
    /\ NoRender /\ NoLexer

Evaluate ==
    /\ epc = "ready"
    /\ evalResult' = evaluate(expression, evalContext)
    /\ epc' = "done"
    /\ UNCHANGED <<expression, evalContext, renderVars, cacheVars, pipeVars, lexVars, threadVars>>

NextEval == Evaluate

SpecEval == InitEval /\ [][NextEval]_vars

\* whether the tree holds an attribute access with a name that starts with "_"
RECURSIVE AccessesPrivate(_), AnyAccessesPrivate(_)
AnyAccessesPrivate(nodes) ==
    \E i \in DOMAIN nodes : AccessesPrivate(nodes[i])
AccessesPrivate(node) ==
    CASE node.k = "Attribute" ->
            StartsWithUnderscore(node.attr) \/ AccessesPrivate(node.value)
      [] node.k = "Call" -> AccessesPrivate(node.func) \/ AnyAccessesPrivate(node.args)
      [] node.k = "BoolOp" -> AnyAccessesPrivate(node.values)
      [] node.k = "UnaryOp" -> AccessesPrivate(node.operand)
      [] node.k = "BinOp" -> AccessesPrivate(node.left) \/ AccessesPrivate(node.right)
      [] node.k = "Compare" ->
            AccessesPrivate(node.left) \/ AnyAccessesPrivate(node.comparators)
      [] node.k = "Subscript" -> AccessesPrivate(node.value) \/ AccessesPrivate(node.slice)
      [] node.k \in {"List", "Tuple"} -> AnyAccessesPrivate(node.elts)
      [] OTHER -> FALSE

PrivateState == {HostData("user")["_private"]}

\* C1: evaluating an expression that accesses an attribute whose name starts with an
\* underscore, whatever its owner and at any depth of the expression, raises
\* PermissionError and never yields the private attribute's value.
C1_PrivateAccessRaisesPermissionError ==
    (epc = "done" /\ AccessesPrivate(expression)) =>
        (evalResult.err = "PermissionError" /\ evalResult.v \notin PrivateState)

\* a callable the evaluator may invoke: a builtin of the whitelist, a safe method of
\* its owner's type, a registered filter
Whitelisted(callee) ==
    CASE TypeOf(callee) = "builtin" -> callee[2] \in builtins
      [] TypeOf(callee) = "filter" -> FiltersHas(callee[2])
      [] TypeOf(callee) = "method" -> is_safe_method(callee[3], callee[2])
      [] OTHER -> FALSE

\* C2: the evaluator invokes whitelisted callables only; a call whose callee is a
\* method that is not whitelisted is refused, whatever syntax the callee has.
C2_OnlyWhitelistedCallsRun ==
    epc = "done" =>
        \A i \in DOMAIN evalResult.calls : Whitelisted(evalResult.calls[i])

----------------------------------------------------------------------------
\* Template nodes (engine/nodes.py), as Parser.parse builds them.  Expressions inside
\* a node are kept as parsed trees; NoExpr stands for an argument that was not given.

NoExpr == [k |-> "NoExpr"]
TextNode(content) == [k |-> "Text", content |-> content]
VarNode(expr, escaped) == [k |-> "Var", expression |-> expr, escaped |-> escaped]
IfNode(condition, body, elif_blocks, else_body) ==
    [k |-> "If", condition |-> condition, body |-> body,
     elif_blocks |-> elif_blocks, else_body |-> else_body]
ForNode(item_var, collection_expr, body, empty_body) ==
    [k |-> "For", item_var |-> item_var, collection_expr |-> collection_expr,
     body |-> body, empty_body |-> empty_body]
BreakNode(condition) == [k |-> "Break", condition |-> condition]
ContinueNode(condition) == [k |-> "Continue", condition |-> condition]
BlockNode(name, body) == [k |-> "Block", name |-> name, body |-> body]
ExtendsNode(layout) == [k |-> "Extends", layout |-> layout]
UnlessNode(condition, body) == [k |-> "Unless", condition |-> condition, body |-> body]
\* cases: the list of <<value expression, body>>
SwitchNode(expr, cases, default_body) ==
    [k |-> "Switch", expression |-> expr, cases |-> cases, default_body |-> default_body]
IncludeNode(path) == [k |-> "Include", path |-> path]
ComponentNode(name, body) == [k |-> "Component", name |-> name, body |-> body]
SlotNode(name, body) == [k |-> "Slot", name |-> name, body |-> body]
\* @regroup(target by key.path as as_name): by is the key path as its list of parts
RegroupNode(target, by, as_name) ==
    [k |-> "Regroup", target |-> target, by |-> by, as_name |-> as_name]
AutoescapeNode(enabled, body) == [k |-> "Autoescape", enabled |-> enabled, body |-> body]
SectionNode(name, body) == [k |-> "Section", name |-> name, body |-> body]
\* Parser._parse_yield gives YieldNode(args_str): the whole argument list is the name
\* and default stays None (NoExpr)
YieldNode(name, default) == [k |-> "Yield", name |-> name, default |-> default]
\* @with(a=1, b=2): variables is the list of <<name, value expression>>
WithNode(variables, body) == [k |-> "With", variables |-> variables, body |-> body]

\* what rendering a node gives: the text returned, or the exception exc that left the
\* call, and the context dict as the call left it
Rendered(out, ctx) == [out |-> out, exc |-> "", ctx |-> ctx]
Unwound(exc, ctx) == [out |-> "", exc |-> exc, ctx |-> ctx]

\* html.escape(s, quote=True)
RECURSIVE html_escape(_)
html_escape(s) ==
    IF s = "" THEN ""
    ELSE LET c == SubSeq(s, 1, 1)
             e == CASE c = "&" -> "&amp;"
                    [] c = "<" -> "&lt;"
                    [] c = ">" -> "&gt;"
                    [] c = "\"" -> "&quot;"
                    [] c = "'" -> "&#x27;"
                    [] OTHER -> c
         IN  e \o html_escape(SubSeq(s, 2, Len(s)))

\* ExpressionEvaluator(context).evaluate(expression): the evaluator of spec section 4.3
\* on names, literals, comparisons, arithmetic and calls of whitelisted builtins
ExpressionEvaluate(expr, ctx) == evaluate(expr, ctx)

\* BreakLoop and ContinueLoop (engine/exceptions.py): the control signals of spec
\* section 4.4
ControlSignals == {"BreakLoop", "ContinueLoop"}
SignalBases == {"Exception", "BaseException"}

\* f"<!-- Error ...: {e} -->"
ErrorComment(what, e) == "<!-- Error " \o what \o ": " \o e \o " -->"

\* try: ... except Exception as e: return f"<!-- Error ... -->"
ExceptException(r, what) ==
    IF r.exc = "" THEN r
    ELSE IF r.exc \in ControlSignals /\ signalBase # "Exception" THEN r
    ELSE Rendered(ErrorComment(what, r.exc), r.ctx)

----------------------------------------------------------------------------
\* TemplateProcessor (engine/processor.py): the node renderers.  self.context is the
\* dict the caller passed to render; the renderers change it in place, so every
\* renderer takes the dict and gives back the dict as it left it.

\* "from .wrappers import DictWrapper, ListWrapper, wrap_value": the package imports
\* names its collection module does not define, so the import raises ImportError
WrappersImport == "ImportError"

\* the files under the template directories, by the name load_template looks up
TemplateFiles ==
    "components/alert" :> "<div>{{ slot }}</div>" @@ "header" :> "<h1>Site</h1>"
    @@ "self" :> "@include('self')" @@ "components/self" :> "@component('self')@endcomponent"
    @@ "layout" :> "@extends('layout')"

\* LoopContext(items_to_iterate, parent=old_loop): __init__ takes items only
LoopContextInit(items, parent) == "TypeError"

\* hasattr(iterable, '__iter__') and list(iterable)
Iterable(v) == TypeOf(v) \in {"list", "tuple", "dict", "str"}
RECURSIVE Chars(_)
Chars(str) == IF str = "" THEN <<>> ELSE <<VStr(SubSeq(str, 1, 1))>> \o Chars(SubSeq(str, 2, Len(str)))
RECURSIVE Pairs(_)
Pairs(items) == IF items = <<>> THEN <<>> ELSE <<VTuple(Head(items))>> \o Pairs(Tail(items))
ItemsToIterate(v) ==
    CASE TypeOf(v) = "dict" -> Pairs(v[2])
      [] TypeOf(v) = "str" -> Chars(v[2])
      [] OTHER -> v[2]

RECURSIVE render_node(_, _), render_nodes(_, _), IfBranches(_, _), ForItems(_, _, _, _, _)

\* output = []; for child_node in body: result = self.render_node(child_node);
\* if result: output.append(result).  An exception leaves the loop; out is then what
\* the list held when it was raised.
render_nodes(nodes, ctx) ==
    IF nodes = <<>> THEN Rendered("", ctx)
    ELSE LET Rest(h, t) == [out |-> h.out \o t.out, exc |-> t.exc, ctx |-> t.ctx]
             First(h) == IF h.exc # "" THEN h ELSE Rest(h, render_nodes(Tail(nodes), h.ctx))
         IN  First(render_node(Head(nodes), ctx))

\* a body rendered inside a try: what it raised leaves without the partial output
Body(b) == IF b.exc # "" THEN Unwound(b.exc, b.ctx) ELSE b

\* render_variable with the escaping step left out
render_variable_unescaped(node, ctx) ==
    LET Shown(result) ==
            IF result.err # "" THEN Rendered(ErrorComment("rendering", result.err), ctx)
            ELSE Rendered(StrOf(result.v), ctx)
    IN  Shown(ExpressionEvaluate(node.expression, ctx))

render_variable(node, ctx) ==
    LET Escaped(result_str) ==
            IF node.escaped THEN Rendered(html_escape(result_str), ctx)
            ELSE Rendered(result_str, ctx)
        Shown(result) ==
            IF result.err # "" THEN Rendered(ErrorComment("rendering", result.err), ctx)
            ELSE Escaped(StrOf(result.v))
    IN  Shown(ExpressionEvaluate(node.expression, ctx))

\* the elif loop and the else body of render_if, inside its try
IfBranches(node, ctx) ==
    IF node.elif_blocks # <<>>
    THEN LET Elif(elif_condition_result) ==
                 IF elif_condition_result.err # "" THEN Unwound(elif_condition_result.err, ctx)
                 ELSE IF Truthy(elif_condition_result.v)
                      THEN Body(render_nodes(Head(node.elif_blocks)[2], ctx))
                 ELSE IfBranches([node EXCEPT !.elif_blocks = Tail(@)], ctx)
         IN  Elif(ExpressionEvaluate(Head(node.elif_blocks)[1], ctx))
    ELSE IF node.else_body # <<>> THEN Body(render_nodes(node.else_body, ctx))
    ELSE Rendered("", ctx)

render_if(node, ctx) ==
    LET Tried(condition_result) ==
            IF condition_result.err # "" THEN Unwound(condition_result.err, ctx)
            ELSE IF Truthy(condition_result.v) THEN Body(render_nodes(node.body, ctx))
            ELSE IfBranches(node, ctx)
    IN  ExceptException(Tried(ExpressionEvaluate(node.condition, ctx)),
                        "evaluating if condition")

render_unless(node, ctx) ==
    LET Tried(condition_result) ==
            IF condition_result.err # "" THEN Unwound(condition_result.err, ctx)
            ELSE IF ~Truthy(condition_result.v) THEN Body(render_nodes(node.body, ctx))
            ELSE Rendered("", ctx)
    IN  ExceptException(Tried(ExpressionEvaluate(node.condition, ctx)),
                        "evaluating unless condition")

\* a switch whose matching case falls through into the cases after it
RECURSIVE SwitchFallsThrough(_, _, _, _, _)
SwitchFallsThrough(node, switch_value, cases, matched, ctx) ==
    LET After(b) ==
            IF b.exc # "" THEN b
            ELSE [SwitchFallsThrough(node, switch_value, Tail(cases), TRUE, b.ctx)
                      EXCEPT !.out = b.out \o @]
        Case(case_value) ==
            IF case_value.err # "" THEN Unwound(case_value.err, ctx)
            ELSE IF matched \/ PyEq(switch_value, case_value.v)
                 THEN After(Body(render_nodes(Head(cases)[2], ctx)))
            ELSE SwitchFallsThrough(node, switch_value, Tail(cases), FALSE, ctx)
    IN  IF cases # <<>> THEN Case(ExpressionEvaluate(Head(cases)[1], ctx))
        ELSE IF ~matched /\ node.default_body # <<>> THEN Body(render_nodes(node.default_body, ctx))
        ELSE Rendered("", ctx)
render_switch_fallthrough(node, ctx) ==
    LET Tried(switch_value) ==
            IF switch_value.err # "" THEN Unwound(switch_value.err, ctx)
            ELSE SwitchFallsThrough(node, switch_value.v, node.cases, FALSE, ctx)
    IN  ExceptException(Tried(ExpressionEvaluate(node.expression, ctx)), "evaluating switch")

\* the case loop and the default body of render_switch, inside its try
RECURSIVE SwitchCases(_, _, _, _)
SwitchCases(node, switch_value, cases, ctx) ==
    LET Case(case_value) ==
            IF case_value.err # "" THEN Unwound(case_value.err, ctx)
            ELSE IF PyEq(switch_value, case_value.v)
                 THEN Body(render_nodes(Head(cases)[2], ctx))
            ELSE SwitchCases(node, switch_value, Tail(cases), ctx)
    IN  IF cases # <<>> THEN Case(ExpressionEvaluate(Head(cases)[1], ctx))
        ELSE IF node.default_body # <<>> THEN Body(render_nodes(node.default_body, ctx))
        ELSE Rendered("", ctx)

render_switch(node, ctx) ==
    LET Tried(switch_value) ==
            IF switch_value.err # "" THEN Unwound(switch_value.err, ctx)
            ELSE SwitchCases(node, switch_value.v, node.cases, ctx)
    IN  ExceptException(Tried(ExpressionEvaluate(node.expression, ctx)), "evaluating switch")

\* raise signal, or when a condition is given, only if it holds
Signal(node, ctx, signal) ==
    LET On(c) == IF c.err # "" THEN Unwound(c.err, ctx)
                 ELSE IF Truthy(c.v) THEN Unwound(signal, ctx)
                 ELSE Rendered("", ctx)
    IN  IF node.condition.k # "NoExpr" THEN On(ExpressionEvaluate(node.condition, ctx))
        ELSE Unwound(signal, ctx)

render_break(node, ctx) == Signal(node, ctx, "BreakLoop")

render_continue(node, ctx) == Signal(node, ctx, "ContinueLoop")

\* the LoopContext object bound to "loop" while the body renders
LoopContext(items, index) == <<"LoopContext", index, Len(items)>>

\* for i, item in enumerate(items_to_iterate), from item i on, inside render_for's try;
\* out is the output list so far
ForItems(node, items, i, out, ctx) ==
    IF i > Len(items) THEN Rendered(out, ctx)
    ELSE LET Item(b) ==
                 IF b.exc = "BreakLoop" THEN Rendered(out \o b.out, b.ctx)
                 ELSE IF b.exc = "ContinueLoop"
                      THEN ForItems(node, items, i + 1, out \o b.out, b.ctx)
                 ELSE IF b.exc # "" THEN Unwound(b.exc, b.ctx)
                 ELSE ForItems(node, items, i + 1, out \o b.out, b.ctx)
         IN  Item(render_nodes(node.body,
                               CtxSet(CtxSet(ctx, node.item_var, items[i]), "loop",
                                      LoopContext(items, i - 1))))

\* "Restore old values"
RestoreOld(ctx, name, old) == IF old # VNone THEN CtxSet(ctx, name, old) ELSE CtxPop(ctx, name)

render_for(node, ctx) ==
    LET old_value == CtxGet(ctx, node.item_var)
        old_loop == CtxGet(ctx, "loop")
        Restored(l) ==
            IF l.exc # "" THEN l
            ELSE Rendered(l.out, RestoreOld(RestoreOld(l.ctx, node.item_var, old_value),
                                            "loop", old_loop))
        Loop(items_to_iterate, loop_context) ==
            IF loop_context # "" THEN Unwound(loop_context, ctx)
            ELSE Restored(ForItems(node, items_to_iterate, 1, "", ctx))
        Over(items_to_iterate) ==
            Loop(items_to_iterate, LoopContextInit(items_to_iterate, old_loop))
        Tried(iterable) ==
            IF WrappersImport # "" THEN Unwound(WrappersImport, ctx)
            ELSE IF iterable.err # "" THEN Unwound(iterable.err, ctx)
            ELSE IF ~Iterable(iterable.v) THEN Unwound("TypeError", ctx)
            ELSE IF ~Truthy(iterable.v) /\ node.empty_body # <<>>
                 THEN Body(render_nodes(node.empty_body, ctx))
            ELSE Over(ItemsToIterate(iterable.v))
    IN  ExceptException(Tried(ExpressionEvaluate(node.collection_expr, ctx)),
                        "evaluating for loop")

render_extends(node, ctx) ==
    LET Layout(layout_path) ==
            IF layout_path.err # ""
            THEN Rendered(ErrorComment("extending", layout_path.err), ctx)
            ELSE Rendered("", CtxSet(ctx, "__extends", layout_path.v))
    IN  Layout(ExpressionEvaluate(node.layout, ctx))

\* self.context.setdefault('__blocks', {})[name] = content
StoreBlock(ctx, name, content) ==
    LET held == IF "__blocks" \in DOMAIN ctx THEN ctx["__blocks"][2] ELSE <<>>
        at == IF DictHas(held, name)
              THEN [i \in DOMAIN held |-> IF held[i][1] = name THEN <<name, content>> ELSE held[i]]
              ELSE Append(held, <<name, content>>)
    IN  CtxSet(ctx, "__blocks", VDict(at))

render_block(node, ctx) ==
    LET \* blocks = self.context.get('__blocks', {}): the dict object, so what a body
        \* stores into an existing __blocks is seen through it
        Blocks(c) == IF "__blocks" \in DOMAIN ctx THEN c["__blocks"][2] ELSE <<>>
        Third(name, third) ==
            IF third.exc # "" THEN Unwound(third.exc, third.ctx)
            ELSE IF Truthy(CtxGet(third.ctx, "__extends"))
                 THEN Rendered("", StoreBlock(third.ctx, name, VStr(third.out)))
            ELSE Rendered(third.out, third.ctx)
        Second(name, second) ==
            IF second.exc # "" THEN Unwound(second.exc, second.ctx)
            ELSE IF DictHas(Blocks(second.ctx), name)
                 THEN Rendered(StrOf(DictGet(Blocks(second.ctx), name)), second.ctx)
            ELSE Third(name, render_nodes(node.body, second.ctx))
        First(name, first) ==
            IF first.exc # "" THEN Unwound(first.exc, first.ctx)
            ELSE IF DictHas(Blocks(first.ctx), name)
                 THEN Rendered(StrOf(DictGet(Blocks(first.ctx), name)), first.ctx)
            ELSE Second(name, render_nodes(node.body, first.ctx))
        Named(name) ==
            IF name.err # "" THEN Unwound(name.err, ctx)
            ELSE IF "__extends" \in DOMAIN ctx THEN First(name.v, render_nodes(node.body, ctx))
            ELSE Rendered("", ctx)
    IN  Named(ExpressionEvaluate(node.name, ctx))

\* get_key(item, key_path) of render_regroup
RECURSIVE get_key(_, _)
get_key(current, key_path) ==
    LET Next_(c) == IF c = VNone THEN c ELSE get_key(c, Tail(key_path))
    IN  IF key_path = <<>> THEN current
        ELSE IF TypeOf(current) = "dict" THEN Next_(DictGet(current[2], VStr(Head(key_path))))
        ELSE IF GetAttr(current, Head(key_path)) = AttributeError THEN VNone
        ELSE Next_(GetAttr(current, Head(key_path)))

\* {'grouper': key, 'list': list(group)}
GroupDict(key, group) == VDict(<< <<VStr("grouper"), key>>, <<VStr("list"), VList(group)>> >>)

\* for key, group in itertools.groupby(target, key=key_func): a group is a run of
\* consecutive items with equal keys; groups holds the runs closed so far, then the
\* open run as <<key, items>>
RECURSIVE groupby(_, _, _, _)
groupby(target, key_path, groups, run) ==
    IF target = <<>>
    THEN IF run = <<>> THEN groups ELSE Append(groups, GroupDict(run[1], run[2]))
    ELSE IF run # <<>> /\ run[1] = get_key(Head(target), key_path)
         THEN groupby(Tail(target), key_path, groups, <<run[1], Append(run[2], Head(target))>>)
    ELSE groupby(Tail(target), key_path,
                 IF run = <<>> THEN groups ELSE Append(groups, GroupDict(run[1], run[2])),
                 <<get_key(Head(target), key_path), <<Head(target)>> >>)

render_regroup(node, ctx) ==
    LET On(target) ==
            IF target.err # "" THEN Unwound(target.err, ctx)
            ELSE IF ~Truthy(target.v) THEN Rendered("", CtxSet(ctx, node.as_name, VList(<<>>)))
            ELSE IF TypeOf(target.v) \in {"list", "tuple"}
                 THEN Rendered("", CtxSet(ctx, node.as_name,
                                          VList(groupby(target.v[2], node.by, <<>>, <<>>))))
            ELSE Rendered("<!-- Invalid @regroup syntax -->", ctx)
    IN  On(ExpressionEvaluate(node.target, ctx))

\* loader.load_template(template_name, template_dirs=None): "for directory in
\* template_dirs" raises TypeError over None; with directories, the first file found
\* is returned as its text, and no file found raises Exception
load_template(template_name, template_dirs) ==
    IF template_dirs = VNone THEN Raised("TypeError")
    ELSE IF template_name \in DOMAIN TemplateFiles THEN Returned(VStr(TemplateFiles[template_name]))
    ELSE Raised("Exception")

\* args_tuple = self.eval(f"({args})", ...); a value that is no tuple becomes (value,)
ArgsTuple(v) == IF TypeOf(v) = "tuple" THEN v[2] ELSE <<v>>

\* template = loader.load_template(path); return template.render(new_context): the
\* loaded value is a str, which has no render
LoadedRender(loaded, ctx) ==
    IF loaded.err # "" THEN Unwound(loaded.err, ctx) ELSE Unwound("AttributeError", ctx)

render_include(node, ctx) ==
    LET Tried(args) ==
            IF args.err # "" THEN Unwound(args.err, ctx)
            ELSE IF ArgsTuple(args.v) = <<>> THEN Unwound("IndexError", ctx)
            ELSE IF TypeOf(ArgsTuple(args.v)[1]) # "str" THEN Unwound("AttributeError", ctx)
            ELSE LoadedRender(load_template(ArgsTuple(args.v)[1][2], VNone), ctx)
    IN  ExceptException(Tried(ExpressionEvaluate(node.path, ctx)), "including")

\* the body (default slot) renders against self.context before the copy is taken
render_component(node, ctx) ==
    LET Slots(args_tuple, b) ==
            IF b.exc # "" THEN Unwound(b.exc, b.ctx)
            ELSE LoadedRender(load_template("components/" \o StrOf(args_tuple[1]), VNone),
                              b.ctx)
        Tried(args) ==
            IF args.err # "" THEN Unwound(args.err, ctx)
            ELSE IF ArgsTuple(args.v) = <<>> THEN Unwound("IndexError", ctx)
            ELSE Slots(ArgsTuple(args.v), render_nodes(node.body, ctx))
    IN  ExceptException(Tried(ExpressionEvaluate(node.name, ctx)), "rendering component")

\* self.context[name] = content, for a name that evaluates to a str
render_slot(node, ctx) ==
    LET Named(content, name) ==
            IF name.err # "" THEN Unwound(name.err, content.ctx)
            ELSE Rendered("", CtxSet(content.ctx, name.v[2], VStr(content.out)))
        Stored(content) ==
            IF content.exc # "" THEN Unwound(content.exc, content.ctx)
            ELSE Named(content, ExpressionEvaluate(node.name, content.ctx))
    IN  Stored(render_nodes(node.body, ctx))

\* self.context.setdefault('__sections', {})[name] = content
StoreSection(ctx, name, content) ==
    LET Put(held) ==
            IF DictHas(held, name)
            THEN [i \in DOMAIN held |-> IF held[i][1] = name THEN <<name, content>> ELSE held[i]]
            ELSE Append(held, <<name, content>>)
        Stored(held) == CtxSet(ctx, "__sections", VDict(Put(held)))
    IN  Stored(IF "__sections" \in DOMAIN ctx THEN ctx["__sections"][2] ELSE <<>>)

\* render_section: the body is rendered, then the name evaluated and the text stored
\* under it; a list or dict as name cannot be a key
render_section(node, ctx) ==
    LET Named(content, name) ==
            IF name.err # "" THEN Unwound(name.err, content.ctx)
            ELSE IF TypeOf(name.v) \in {"list", "dict"} THEN Unwound("TypeError", content.ctx)
            ELSE Rendered("", StoreSection(content.ctx, name.v, VStr(content.out)))
        Stored(content) ==
            IF content.exc # "" THEN Unwound(content.exc, content.ctx)
            ELSE Named(content, ExpressionEvaluate(node.name, content.ctx))
    IN  Stored(render_nodes(node.body, ctx))

\* render_yield: sections.get(name), else the value of node.default when there is one,
\* else ""
render_yield(node, ctx) ==
    LET Default(value) ==
            IF value.err # "" THEN Unwound(value.err, ctx) ELSE Rendered(StrOf(value.v), ctx)
        Found(content) ==
            IF content # VNone THEN Rendered(StrOf(content), ctx)
            ELSE IF node.default.k # "NoExpr"
                 THEN Default(ExpressionEvaluate(node.default, ctx))
            ELSE Rendered("", ctx)
        Named(name, sections) ==
            IF name.err # "" THEN Unwound(name.err, ctx)
            ELSE IF TypeOf(name.v) \in {"list", "dict"} THEN Unwound("TypeError", ctx)
            ELSE Found(DictGet(sections, name.v))
    IN  Named(ExpressionEvaluate(node.name, ctx),
              IF "__sections" \in DOMAIN ctx THEN ctx["__sections"][2] ELSE <<>>)

\* new_context.update(vars_dict)
RECURSIVE CtxUpdate(_, _)
CtxUpdate(ctx, items) ==
    IF items = <<>> THEN ctx
    ELSE CtxUpdate(CtxSet(ctx, Head(items)[1][2], Head(items)[2]), Tail(items))

\* self.eval(f"dict({vars_str})", self.context): a call of the name dict, whose keyword
\* values are evaluated as the arguments of the call.  The body renders with
\* self.context swapped for the updated copy; finally puts the caller's dict back.
render_with(node, ctx) ==
    LET Bodied(b) == IF b.exc # "" THEN Unwound(b.exc, ctx) ELSE Rendered(b.out, ctx)
        Updated(vars_dict) ==
            IF vars_dict.err # "" THEN Unwound(vars_dict.err, ctx)
            ELSE IF TypeOf(vars_dict.v) # "dict" THEN Unwound("TypeError", ctx)
            ELSE Bodied(render_nodes(node.body, CtxUpdate(ctx, vars_dict.v[2])))
    IN  ExceptException(Updated(ExpressionEvaluate(Call(Name("dict"), Seconds(node.variables)),
                                                   ctx)),
                        "in @with")

render_node(node, ctx) ==
    CASE node.k = "Text" -> Rendered(node.content, ctx)
      [] node.k = "Var" -> render_variable(node, ctx)
      [] node.k = "Include" -> render_include(node, ctx)
      [] node.k = "Component" -> render_component(node, ctx)
      [] node.k = "Slot" -> render_slot(node, ctx)
      [] node.k = "Regroup" -> render_regroup(node, ctx)
      [] node.k = "Block" -> render_block(node, ctx)
      [] node.k = "If" -> render_if(node, ctx)
      [] node.k = "Unless" -> render_unless(node, ctx)
      [] node.k = "Switch" -> render_switch(node, ctx)
      [] node.k = "For" -> render_for(node, ctx)
      [] node.k = "Extends" -> render_extends(node, ctx)
      [] node.k = "Break" -> render_break(node, ctx)
      [] node.k = "Continue" -> render_continue(node, ctx)
      [] node.k = "Section" -> render_section(node, ctx)
      [] node.k = "With" -> render_with(node, ctx)
      [] node.k = "Yield" -> render_yield(node, ctx)
      [] OTHER -> Rendered("", ctx)

----------------------------------------------------------------------------
\* Renderer (engine/new.py): the renderer of the single-file engine, with its own
\* expression evaluation over the context dict it was constructed with

RECURSIVE evaluate_expression(_, _)
evaluate_expression(expr, ctx) ==
    CASE expr.k = "Constant" -> Returned(expr.value)
      [] expr.k = "Name" -> Returned(CtxGet(ctx, expr.id))
      [] expr.k = "Compare" /\ Len(expr.ops) = 1 ->
            LET Both(left, right) ==
                    IF left.err # "" THEN left
                    ELSE IF right.err # "" THEN right
                    ELSE ApplyBinary(expr.ops[1], left.v, right.v)
            IN  Both(evaluate_expression(expr.left, ctx),
                     evaluate_expression(expr.comparators[1], ctx))
      [] expr.k = "UnaryOp" /\ expr.op = "Not" ->
            LET Not(operand) ==
                    IF operand.err # "" THEN operand ELSE Returned(VBool(~Truthy(operand.v)))
            IN  Not(evaluate_expression(expr.operand, ctx))
      [] OTHER -> Returned(VNone)

RECURSIVE Renderer_render_node(_, _), Renderer_render(_, _), Renderer_for_items(_, _, _, _, _)

\* Renderer.render: the results of the nodes, joined
Renderer_render(nodes, ctx) ==
    IF nodes = <<>> THEN Rendered("", ctx)
    ELSE LET Rest(h, t) == IF t.exc # "" THEN t ELSE Rendered(h.out \o t.out, t.ctx)
             First(h) == IF h.exc # "" THEN h ELSE Rest(h, Renderer_render(Tail(nodes), h.ctx))
         IN  First(Renderer_render_node(Head(nodes), ctx))

Renderer_render_variable(node, ctx) ==
    LET Shown(value) ==
            IF value.err # "" THEN Unwound(value.err, ctx)
            ELSE IF value.v = VNone THEN Rendered("", ctx)
            ELSE IF node.escaped THEN Rendered(html_escape(StrOf(value.v)), ctx)
            ELSE Rendered(StrOf(value.v), ctx)
    IN  Shown(evaluate_expression(node.expression, ctx))

Renderer_render_if(node, ctx) ==
    LET Elif(elif_value) ==
            IF elif_value.err # "" THEN Unwound(elif_value.err, ctx)
            ELSE IF Truthy(elif_value.v) THEN Renderer_render(Head(node.elif_blocks)[2], ctx)
            ELSE Renderer_render_node([node EXCEPT !.condition = Const(VBool(FALSE)),
                                                   !.elif_blocks = Tail(@)], ctx)
        If(condition_value) ==
            IF condition_value.err # "" THEN Unwound(condition_value.err, ctx)
            ELSE IF Truthy(condition_value.v) THEN Renderer_render(node.body, ctx)
            ELSE IF node.elif_blocks # <<>>
                 THEN Elif(evaluate_expression(Head(node.elif_blocks)[1], ctx))
            ELSE IF node.else_body # <<>> THEN Renderer_render(node.else_body, ctx)
            ELSE Rendered("", ctx)
    IN  If(evaluate_expression(node.condition, ctx))

\* the dict bound to "loop" for the item at index
LoopRecord(index, length) ==
    VDict(<< <<VStr("index"), VInt(index)>>, <<VStr("index0"), VInt(index)>>,
             <<VStr("index1"), VInt(index + 1)>>, <<VStr("first"), VBool(index = 0)>>,
             <<VStr("last"), VBool(index = length - 1)>>, <<VStr("length"), VInt(length)>> >>)

\* for index, item in enumerate(iterable), from item i on
Renderer_for_items(node, items, i, out, ctx) ==
    IF i > Len(items) THEN Rendered(out, ctx)
    ELSE LET old_value == CtxGet(ctx, node.item_var)
             with_item == CtxSet(ctx, node.item_var, items[i])
             old_loop == CtxGet(with_item, "loop")
             Item(b) ==
                 IF b.exc # "" THEN b
                 ELSE Renderer_for_items(node, items, i + 1, out \o b.out,
                          RestoreOld(RestoreOld(b.ctx, node.item_var, old_value),
                                     "loop", old_loop))
         IN  Item(Renderer_render(node.body,
                                  CtxSet(with_item, "loop", LoopRecord(i - 1, Len(items)))))

Renderer_render_for(node, ctx) ==
    LET For(iterable) ==
            IF iterable.err # "" THEN Unwound(iterable.err, ctx)
            ELSE IF ~Truthy(iterable.v) THEN Rendered("", ctx)
            ELSE IF ~Iterable(iterable.v) THEN Unwound("TypeError", ctx)
            ELSE Renderer_for_items(node,
                                    IF TypeOf(iterable.v) = "dict" THEN Firsts(iterable.v[2])
                                    ELSE ItemsToIterate(iterable.v),
                                    1, "", ctx)
    IN  For(evaluate_expression(node.collection_expr, ctx))

Renderer_render_node(node, ctx) ==
    CASE node.k = "Text" -> Rendered(node.content, ctx)
      [] node.k = "Var" -> Renderer_render_variable(node, ctx)
      [] node.k = "If" -> Renderer_render_if(node, ctx)
      [] node.k = "For" -> Renderer_render_for(node, ctx)
      [] node.k = "Extends" -> Rendered("<!-- extends: " \o StrOf(node.layout.value) \o " -->", ctx)
      [] OTHER -> Rendered("", ctx)

----------------------------------------------------------------------------
\* Node.render(context) of the node classes themselves (engine/nodes.py)

RECURSIVE Node_render(_, _), Node_render_body(_, _)

\* output = []; for node in self.body: rendered = node.render(context); ...; "".join
Node_render_body(nodes, ctx) ==
    IF nodes = <<>> THEN Rendered("", ctx)
    ELSE LET Rest(h, t) == IF t.exc # "" THEN t ELSE Rendered(h.out \o t.out, t.ctx)
             First(h) == IF h.exc # "" THEN h ELSE Rest(h, Node_render_body(Tail(nodes), h.ctx))
         IN  First(Node_render(Head(nodes), ctx))

BlockNode_render(node, ctx) ==
    LET blocks == IF "__blocks" \in DOMAIN ctx THEN ctx["__blocks"] ELSE VDict(<<>>)
        Named(name) ==
            IF name.err # "" THEN Unwound(name.err, ctx)
            ELSE IF TypeOf(blocks) = "dict" /\ DictHas(blocks[2], name.v)
                 THEN Rendered(StrOf(DictGet(blocks[2], name.v)), ctx)
            ELSE Node_render_body(node.body, ctx)
    IN  Named(evaluate(node.name, ctx))

\* VarNode.render: an evaluation error leaves as TemplateRenderError, None shows as ""
VarNode_render(node, ctx) ==
    LET Shown(value) ==
            IF value.err # "" THEN Unwound("TemplateRenderError", ctx)
            ELSE IF value.v = VNone THEN Rendered("", ctx)
            ELSE IF node.escaped THEN Rendered(html_escape(StrOf(value.v)), ctx)
            ELSE Rendered(StrOf(value.v), ctx)
    IN  Shown(evaluate(node.expression, ctx))

\* the body of an AutoescapeNode as render sees it when no other render is in flight:
\* a VarNode child has escaped = False while it renders
Unescaped(nodes) ==
    [i \in DOMAIN nodes |-> IF nodes[i].k = "Var" THEN [nodes[i] EXCEPT !.escaped = FALSE]
                            ELSE nodes[i]]

\* AutoescapeNode.render
AutoescapeNode_render(node, ctx) ==
    IF node.enabled THEN Node_render_body(node.body, ctx)
    ELSE Node_render_body(Unescaped(node.body), ctx)

\* the by argument as the expression RegroupNode.render evaluates
RECURSIVE ByExpression(_)
ByExpression(key_path) ==
    IF Len(key_path) = 1 THEN Name(key_path[1])
    ELSE Attribute(ByExpression(SubSeq(key_path, 1, Len(key_path) - 1)), key_path[Len(key_path)])

\* Group(grouper, items)
Group(grouper, items) == <<"Group", grouper, VList(items)>>

\* groups = defaultdict(list); for item in target: groups[key].append(item), as the
\* list of <<key, items>> in insertion order
RECURSIVE Regrouped(_, _, _)
Regrouped(target, by, groups) ==
    LET key == IF TypeOf(Head(target)) = "dict" THEN DictGet(Head(target)[2], by)
               ELSE IF TypeOf(by) # "str" \/ GetAttr(Head(target), by[2]) = AttributeError
                    THEN VNone
               ELSE GetAttr(Head(target), by[2])
    IN  IF target = <<>> THEN groups
        ELSE IF DictHas(groups, key)
             THEN Regrouped(Tail(target), by,
                            [i \in DOMAIN groups |->
                                 IF groups[i][1] = key
                                 THEN <<key, Append(groups[i][2], Head(target))>>
                                 ELSE groups[i]])
        ELSE Regrouped(Tail(target), by, Append(groups, <<key, <<Head(target)>> >>))

RegroupNode_render(node, ctx) ==
    LET Result(groups) == VList([i \in DOMAIN groups |-> Group(groups[i][1], groups[i][2])])
        By(target, by) ==
            IF by.err # "" THEN Unwound(by.err, ctx)
            ELSE IF ~Truthy(target.v) THEN Rendered("", CtxSet(ctx, node.as_name, VList(<<>>)))
            ELSE IF ~Iterable(target.v) \/ TypeOf(by.v) \in {"list", "dict"}
                 THEN Unwound("TypeError", ctx)
            ELSE Rendered("", CtxSet(ctx, node.as_name,
                                     Result(Regrouped(ItemsToIterate(target.v), by.v, <<>>))))
        On(target) ==
            IF target.err # "" THEN Unwound(target.err, ctx)
            ELSE By(target, evaluate(ByExpression(node.by), ctx))
    IN  On(evaluate(node.target, ctx))

Node_render(node, ctx) ==
    CASE node.k = "Text" -> Rendered(node.content, ctx)
      [] node.k = "Regroup" -> RegroupNode_render(node, ctx)
      [] node.k = "Var" -> VarNode_render(node, ctx)
      [] node.k = "Block" -> BlockNode_render(node, ctx)
      [] node.k = "Autoescape" -> AutoescapeNode_render(node, ctx)
      [] OTHER -> Rendered("", ctx)

----------------------------------------------------------------------------
\* TemplateCache (engine/cache.py), after spec section 4.5: entries keyed by a
\* fingerprint of (source, context), kept in insertion order with their insertion
\* time; at most max_size of them, the oldest evicted first; an entry expires ttl
\* after its insertion; a context that is not stably hashable always misses.

\* a value whose serialization is the same in every run: plain data, not a host
\* object or a callable
RECURSIVE StablyHashable(_)
StablyHashable(v) ==
    CASE TypeOf(v) \in {"None", "int", "bool", "str"} -> TRUE
      [] TypeOf(v) \in {"list", "tuple"} -> \A i \in DOMAIN v[2] : StablyHashable(v[2][i])
      [] TypeOf(v) = "dict" ->
            \A i \in DOMAIN v[2] : StablyHashable(v[2][i][1]) /\ StablyHashable(v[2][i][2])
      [] OTHER -> FALSE

Unhashable == <<"unhashable">>
Fingerprint(source, ctx) ==
    IF \A n \in DOMAIN ctx : StablyHashable(ctx[n]) THEN <<"key", source, ctx>> ELSE Unhashable

Without(entries, key) == SelectSeq(entries, LAMBDA e : e.key # key)
Holds(entries, key) == \E i \in DOMAIN entries : entries[i].key = key
Expired(entry, time, ttl) == time - entry.time >= ttl

\* get: the text and the entries afterwards; an expired entry is dropped on the way
cache_get(entries, time, ttl, source, ctx) ==
    LET key == Fingerprint(source, ctx)
        at == {i \in DOMAIN entries : entries[i].key = key}
    IN  IF key = Unhashable \/ at = {} THEN [found |-> FALSE, text |-> "", entries |-> entries]
        ELSE LET e == entries[CHOOSE i \in at : TRUE]
             IN  IF Expired(e, time, ttl)
                 THEN [found |-> FALSE, text |-> "", entries |-> Without(entries, key)]
                 ELSE [found |-> TRUE, text |-> e.text, entries |-> entries]

\* set: a key already held is replaced by the new entry; a new key evicts the oldest
\* entry when the cache is full
cache_set(entries, time, max_size, source, ctx, text) ==
    LET key == Fingerprint(source, ctx)
        entry == [key |-> key, text |-> text, time |-> time]
    IN  IF key = Unhashable \/ max_size <= 0 THEN entries
        ELSE IF Holds(entries, key) THEN Append(Without(entries, key), entry)
        ELSE IF Len(entries) >= max_size THEN Append(Tail(entries), entry)
        ELSE Append(entries, entry)

cache_invalidate(entries, source, ctx) == Without(entries, Fingerprint(source, ctx))
cache_clear(entries) == <<>>

----------------------------------------------------------------------------
\* TemplateProcessor: construction, render and the cache management methods

CacheSize == 2     \* the cache_size argument TemplateProcessor is constructed with
CacheTtl == 2      \* the cache_ttl argument, in clock ticks

\* TemplateProcessor.__init__: TemplateCache(max_size=cache_size, ttl=cache_ttl)
\* a cache constructed one entry larger than asked
ProcessorMaxSizePlusOne(cache_size) == cache_size + 1

ProcessorMaxSize(cache_size) == cache_size
ProcessorTtl(cache_ttl) == cache_ttl

\* Lexer(template).tokenize() and Parser(tokens).parse(): a template is held as the
\* node list its source parses to

\* TemplateProcessor.render: the text returned or the exception raised, the context
\* dict and the cache entries as the call left them, and whether the cache answered
render(entries, time, source, ctx) ==
    LET Computed(held, r) ==
            IF r.exc # ""
            THEN [out |-> "", exc |-> r.exc, ctx |-> r.ctx, entries |-> held, hit |-> FALSE]
            ELSE [out |-> r.out, exc |-> "", ctx |-> r.ctx,
                  entries |-> cache_set(held, time, ProcessorMaxSize(CacheSize),
                                        source, r.ctx, r.out),
                  hit |-> FALSE]
        \* r is what the nodes render to, rendered only when the cache has no answer
        Looked(cached_result, r) ==
            IF cached_result.found
            THEN [out |-> cached_result.text, exc |-> "", ctx |-> ctx,
                  entries |-> cached_result.entries, hit |-> TRUE]
            ELSE Computed(cached_result.entries, r)
    IN  Looked(cache_get(entries, time, ProcessorTtl(CacheTtl), source, ctx),
               render_nodes(source, ctx))

clear_cache(entries) == cache_clear(entries)

\* invalidate_template that empties the cache
invalidate_template_all(entries, source, ctx) == cache_clear(entries)

invalidate_template(entries, source, ctx) == cache_invalidate(entries, source, ctx)

\* PyBlade.invalidate_template(template, context=None): no context means {}
PyBlade_invalidate_template(entries, source) == invalidate_template(entries, source, EmptyCtx)

----------------------------------------------------------------------------
\* One render call per template and context, by each of the three renderers

MaxNodes == 2      \* how many Text and Var nodes a flat template has

Range5 == Call(Name("range"), <<Const(VInt(5))>>)
Is2(v) == Compare(Name(v), <<"Eq">>, <<Const(VInt(2))>>)
Xss == "<script>alert('xss')</script>"

FlatNodes ==
    {TextNode("a"), TextNode("<b>&"), VarNode(Name("name"), TRUE), VarNode(Name("name"), FALSE),
     VarNode(Name("x"), TRUE), VarNode(Name("len"), TRUE), VarNode(Const(VInt(7)), TRUE)}
FlatTemplates == UNION {[1..n -> FlatNodes] : n \in 1..MaxNodes}

\* loop bodies over the loop variable v: plain, with @break(v==2) after the variable,
\* with @continue(v==2) before it, and with the signals inside an @if
LoopBodies(v) ==
    {<<VarNode(Name(v), TRUE)>>,
     <<VarNode(Name(v), TRUE), BreakNode(Is2(v))>>,
     <<ContinueNode(Is2(v)), VarNode(Name(v), TRUE)>>,
     <<VarNode(Name(v), TRUE), IfNode(Is2(v), <<BreakNode(NoExpr)>>, <<>>, <<>>)>>,
     <<IfNode(Is2(v), <<ContinueNode(NoExpr)>>, <<>>, <<>>), VarNode(Name(v), TRUE)>>,
     <<VarNode(Name("loop"), FALSE)>>}
LoopVars == {"i", "x", "loop"}
Collections ==
    {Range5, Const(VList(<<VInt(1), VInt(2)>>)), Const(VList(<<>>)), Name("xs"), Name("x")}
ForTemplates ==
    UNION {{<<ForNode(v, c, b, e)>> :
                c \in Collections, b \in LoopBodies(v), e \in {<<>>, <<TextNode("none")>>}} :
           v \in LoopVars}
    \cup {<<ForNode("x", Const(VList(<<VInt(1), VInt(2)>>)),
                    <<ForNode("i", Range5, b, <<>>), TextNode("|")>>, <<>>)>> : b \in LoopBodies("i")}

Header == Const(VStr("header"))
Title == Const(VStr("title"))
ChildTemplate == <<ExtendsNode(Const(VStr("layout"))), BlockNode(Title, <<TextNode("Child")>>)>>
\* the template a loader resolves the name "layout" to
LayoutTemplate == <<TextNode("<h1>"), BlockNode(Title, <<TextNode("Default")>>), TextNode("</h1>")>>
BlockTemplates ==
    {<<BlockNode(Header, <<TextNode("Default Header")>>)>>,
     <<BlockNode(Title, <<TextNode("Default")>>)>>,
     <<BlockNode(Header, <<TextNode("a"), BlockNode(Title, <<TextNode("b")>>)>>)>>,
     <<ExtendsNode(Const(VStr("layout"))), TextNode("x"), BlockNode(Title, <<TextNode("Child")>>)>>,
     ChildTemplate, LayoutTemplate}

\* @include and @component, with and without data, a default slot and named slots
PartialTemplates ==
    {<<IncludeNode(Const(VStr("header")))>>,
     <<IncludeNode(TupleExpr(<<Const(VStr("header")), Name("xs")>>))>>,
     <<IncludeNode(Name("name"))>>,
     <<ComponentNode(Const(VStr("alert")), <<TextNode("body")>>)>>,
     <<ComponentNode(Const(VStr("alert")),
                     <<SlotNode(Title, <<TextNode("T")>>), TextNode("body")>>)>>,
     <<ComponentNode(Const(VStr("alert")),
                     <<SlotNode(Const(VStr("name")), <<VarNode(Name("x"), TRUE)>>)>>),
       VarNode(Name("name"), TRUE)>>}

Templates == FlatTemplates \cup ForTemplates \cup BlockTemplates \cup PartialTemplates

Contexts ==
    {EmptyCtx,
     "name" :> VStr("World") @@ "x" :> VInt(5),
     "name" :> VStr(Xss) @@ "x" :> VStr("a&\"b"),
     "name" :> VNone @@ "x" :> VNone,
     "name" :> VStr("World") @@ "len" :> VInt(3),
     "x" :> VInt(5) @@ "xs" :> VList(<<VInt(1), VInt(2)>>),
     "i" :> VInt(9) @@ "loop" :> VStr("outer"),
     "__blocks" :> VDict(<< <<VStr("header"), VStr("New Header")>> >>),
     "__blocks" :> VDict(<< <<VStr("title"), VStr("Child")>> >>) @@ "__extends" :> VStr("layout"),
     "__extends" :> VNone}

NoEvaluation ==
    /\ expression = Const(VNone)
    /\ evalContext = EmptyCtx
    /\ evalResult = NoResult
    /\ epc = "idle"

InitRender ==
    /\ NoEvaluation /\ NoLexer
    /\ NoPipeline /\ NoThreads
    /\ template \in Templates
    /\ contextIn \in Contexts
    /\ contextOut = contextIn
    /\ output = [out |-> "", exc |-> ""]
    /\ rpc = "ready"
    /\ signalBase \in SignalBases
    /\ cache = <<>>
    /\ now = 0
    /\ last = NoCall

\* TemplateProcessor().render(template, context)
ProcessorRender ==
    /\ rpc = "ready"
    /\ LET Returns(r) == /\ output' = [out |-> r.out, exc |-> r.exc]
                          /\ contextOut' = r.ctx
                          /\ cache' = r.entries
       IN  Returns(render(cache, now, template, contextIn))
    /\ rpc' = "TemplateProcessor"
    /\ UNCHANGED <<evalVars, template, contextIn, signalBase, now, last, pipeVars, lexVars, threadVars>>

\* Renderer(context).render(nodes)
RendererRender ==
    /\ rpc = "ready"
    /\ template \notin PartialTemplates      \* new.py has no include, component or slot node
    /\ LET Returns(r) == /\ output' = [out |-> r.out, exc |-> r.exc]
                          /\ contextOut' = r.ctx
       IN  Returns(Renderer_render(template, contextIn))
    /\ rpc' = "Renderer"
    /\ UNCHANGED <<evalVars, template, contextIn, signalBase, cacheVars, pipeVars, lexVars, threadVars>>

\* node.render(context) for each node of a template of Text and Block nodes
NodeRender ==
    /\ rpc = "ready"
    /\ template \in BlockTemplates
    /\ \A i \in DOMAIN template : template[i].k \in {"Text", "Block"}
    /\ LET Returns(r) == /\ output' = [out |-> r.out, exc |-> r.exc]
                          /\ contextOut' = r.ctx
       IN  Returns(Node_render_body(template, contextIn))
    /\ rpc' = "Node"
    /\ UNCHANGED <<evalVars, template, contextIn, signalBase, cacheVars, pipeVars, lexVars, threadVars>>

NextRender == ProcessorRender \/ RendererRender \/ NodeRender

SpecRender == InitRender /\ [][NextRender]_vars

\* the binding of name is the same in both dicts: bound to the same value, or unbound
SameBinding(name, before, after) ==
    /\ (name \in DOMAIN before) = (name \in DOMAIN after)
    /\ name \in DOMAIN before => after[name] = before[name]

\* C3: after a template that is one @for node has rendered without raising, the
\* context binds the loop variable and the key "loop" exactly as the caller's dict
\* did before: the same value if it was bound, absent if it was not.
C3_ForRestoresBindings ==
    (/\ rpc \in {"TemplateProcessor", "Renderer"}
     /\ Len(template) = 1 /\ template[1].k = "For"
     /\ output.exc = "") =>
        /\ SameBinding(template[1].item_var, contextIn, contextOut)
        /\ SameBinding("loop", contextIn, contextOut)

\* what the claim and test_break_continue expect of a loop over range(5): the variable
\* followed by a break at 2 gives "012", a continue at 2 before the variable "0134",
\* also with the signal raised inside an @if in the body
SignalCases ==
    {[body |-> <<VarNode(Name("i"), TRUE), BreakNode(Is2("i"))>>, expected |-> "012"],
     [body |-> <<ContinueNode(Is2("i")), VarNode(Name("i"), TRUE)>>, expected |-> "0134"],
     [body |-> <<VarNode(Name("i"), TRUE), IfNode(Is2("i"), <<BreakNode(NoExpr)>>, <<>>, <<>>)>>,
      expected |-> "012"],
     [body |-> <<IfNode(Is2("i"), <<ContinueNode(NoExpr)>>, <<>>, <<>>), VarNode(Name("i"), TRUE)>>,
      expected |-> "0134"]}

\* C4: a Break or Continue signal raised in a @for body, directly or inside a nested
\* @if, is caught by that @for: Break ends the loop, Continue skips the rest of the
\* iteration, and the text emitted before the signal is kept, so that the loops of
\* SignalCases over range(5) render "012" and "0134".
C4_SignalsCaughtByNearestFor ==
    \A case \in SignalCases :
        (/\ rpc = "TemplateProcessor"
         /\ template = <<ForNode("i", Range5, case.body, <<>>)>>
         /\ contextIn = EmptyCtx) =>
            (output.exc = "" /\ output.out = case.expected)

\* C5: rendering the child template, which extends "layout" and overrides its block
\* "title" with Child, stores the block in the override map and returns the layout's
\* text with Child in place of the layout's default block body.
C5_ChildRendersLayout ==
    (/\ rpc = "TemplateProcessor"
     /\ template = ChildTemplate
     /\ contextIn = EmptyCtx) =>
        /\ output.exc = ""
        /\ CtxGet(contextOut, "__extends") = VStr("layout")
        /\ output.out = "<h1>Child</h1>"

\* the text of a body of Text nodes
RECURSIVE TextOf(_)
TextOf(nodes) == IF nodes = <<>> THEN "" ELSE Head(nodes).content \o TextOf(Tail(nodes))

\* C6: rendering a @block node of a template that extends nothing returns the text
\* stored under the block's name in the context's __blocks map when there is one, and
\* the rendering of the block's own default body otherwise.
C6_BlockOverrideOrDefault ==
    (/\ rpc \in {"TemplateProcessor", "Node"}
     /\ Len(template) = 1 /\ template[1].k = "Block"
     /\ \A i \in DOMAIN template[1].body : template[1].body[i].k = "Text"
     /\ "__extends" \notin DOMAIN contextIn) =>
        LET overrides == IF "__blocks" \in DOMAIN contextIn THEN contextIn["__blocks"][2] ELSE <<>>
            name == template[1].name.value
        IN  /\ output.exc = ""
            /\ output.out = IF DictHas(overrides, name) THEN DictGet(overrides, name)[2]
                            ELSE TextOf(template[1].body)

\* the HTML entity of each special character
Entities ==
    << <<"&", "&amp;">>, <<"<", "&lt;">>, <<">", "&gt;">>, <<"\"", "&quot;">>, <<"'", "&#x27;">> >>
RECURSIVE HtmlEscaped(_)
HtmlEscaped(str) ==
    IF str = "" THEN ""
    ELSE LET c == SubSeq(str, 1, 1)
             at == {i \in DOMAIN Entities : Entities[i][1] = c}
         IN  (IF at = {} THEN c ELSE Entities[CHOOSE i \in at : TRUE][2])
             \o HtmlEscaped(SubSeq(str, 2, Len(str)))

\* a template of Text nodes and of variable tags that name a key of the context
FlatOver(nodes, ctx) ==
    \A i \in DOMAIN nodes :
        \/ nodes[i].k = "Text"
        \/ /\ nodes[i].k = "Var"
           /\ nodes[i].expression.k = "Name"
           /\ nodes[i].expression.id \in DOMAIN ctx

\* the Text segments in order, each variable position holding the string of its value,
\* escaped for {{ }} and as it is for {!! !!}
RECURSIVE Substituted(_, _)
Substituted(nodes, ctx) ==
    IF nodes = <<>> THEN ""
    ELSE LET n == Head(nodes)
             piece == IF n.k = "Text" THEN n.content
                      ELSE IF n.escaped THEN HtmlEscaped(StrOf(ctx[n.expression.id]))
                      ELSE StrOf(ctx[n.expression.id])
         IN  piece \o Substituted(Tail(nodes), ctx)

NoBuiltinNamed(nodes) ==
    \A i \in DOMAIN nodes : nodes[i].k = "Var" => nodes[i].expression.id \notin builtins

----------------------------------------------------------------------------
\* One TemplateProcessor over time: render, invalidate_template and clear_cache calls
\* in any order, with the clock advancing between them

MaxTime == 3       \* the clock stops here

\* "Hello, {{ name }}" and a template that extends a layout
CacheTemplates == {<<TextNode("Hello, "), VarNode(Name("name"), TRUE)>>, ChildTemplate}
\* the contexts callers pass: plain data, and one holding a host object
CacheContexts == {EmptyCtx, "name" :> VStr("World"), "name" :> VObj("user")}

InitCache ==
    /\ NoEvaluation /\ NoLexer
    /\ NoPipeline /\ NoThreads
    /\ template = <<>>
    /\ contextIn = EmptyCtx
    /\ contextOut = EmptyCtx
    /\ output = [out |-> "", exc |-> ""]
    /\ rpc = "ready"
    /\ signalBase = "Exception"
    /\ cache = <<>>
    /\ now = 0
    /\ last = NoCall

\* the record of a call and what it returned; r is empty for a call that returns nothing
Called(op, source, ctx, r) ==
    [op |-> op, source |-> source, ctx |-> ctx, out |-> r.out, exc |-> r.exc,
     hit |-> r.hit, time |-> now, before |-> cache]

\* processor.render(source, ctx)
CacheRender ==
    /\ \E source \in CacheTemplates, ctx \in CacheContexts :
          LET Returns(r) == /\ cache' = r.entries
                            /\ last' = Called("render", source, ctx, r)
          IN  Returns(render(cache, now, source, ctx))
    /\ UNCHANGED <<evalVars, renderVars, now, pipeVars, lexVars, threadVars>>

\* processor.invalidate_template(source, ctx)
InvalidateTemplate ==
    /\ \E source \in CacheTemplates, ctx \in CacheContexts :
          /\ cache' = invalidate_template(cache, source, ctx)
          /\ last' = Called("invalidate", source, ctx, [out |-> "", exc |-> "", hit |-> FALSE])
    /\ UNCHANGED <<evalVars, renderVars, now, pipeVars, lexVars, threadVars>>

\* PyBlade.invalidate_template(source): no context given
PyBladeInvalidateTemplate ==
    /\ \E source \in CacheTemplates :
          /\ cache' = PyBlade_invalidate_template(cache, source)
          /\ last' = Called("invalidate", source, EmptyCtx, [out |-> "", exc |-> "", hit |-> FALSE])
    /\ UNCHANGED <<evalVars, renderVars, now, pipeVars, lexVars, threadVars>>

\* processor.clear_cache()
ClearCache ==
    /\ cache' = clear_cache(cache)
    /\ last' = Called("clear", <<>>, EmptyCtx, [out |-> "", exc |-> "", hit |-> FALSE])
    /\ UNCHANGED <<evalVars, renderVars, now, pipeVars, lexVars, threadVars>>

\* time passes
Tick ==
    /\ now < MaxTime
    /\ now' = now + 1
    /\ UNCHANGED <<evalVars, renderVars, cache, last, pipeVars, lexVars, threadVars>>

NextCache == CacheRender \/ InvalidateTemplate \/ PyBladeInvalidateTemplate \/ ClearCache \/ Tick

SpecCache == InitCache /\ [][NextCache]_vars

\* every entry held is within its time to live
Live(entries) ==
    \A i \in DOMAIN entries : ~Expired(entries[i], now, ProcessorTtl(CacheTtl))

\* C8: when a render of (source, context) has returned, the context holds only plain
\* data and no entry's time to live has run out, rendering the same source with an
\* equal context again is answered by the cache, with the text of the first call.
C8_SecondRenderServedFromCache ==
    (/\ last.op = "render" /\ last.exc = ""
     /\ Fingerprint(last.source, last.ctx) # Unhashable
     /\ Live(cache)) =>
        LET Again(second) == second.hit /\ second.exc = "" /\ second.out = last.out
        IN  Again(render(cache, now, last.source, last.ctx))

Keys(entries) == {entries[i].key : i \in DOMAIN entries}
Oldest(entries) == CHOOSE e \in {entries[i] : i \in DOMAIN entries} :
                       \A i \in DOMAIN entries : e.time <= entries[i].time
\* this render put an entry under a key the cache did not hold
Inserted == /\ last.op = "render" /\ ~last.hit /\ last.exc = ""
            /\ cache # <<>>
            /\ cache[Len(cache)].key \notin Keys(last.before)
Full(entries) == Len(entries) >= ProcessorMaxSize(CacheSize)

\* C9: the cache never holds more than max_size entries, and a render that inserts a
\* new key into a full cache evicts the entry inserted first, one whose insertion time
\* is the oldest, and keeps every other entry as it was.
C9_BoundedOldestFirst ==
    /\ Len(cache) <= CacheSize
    /\ (Inserted /\ Full(last.before)) =>
          /\ last.before[1].time = Oldest(last.before).time
          /\ last.before[1].key \notin Keys(cache)
          /\ SubSeq(cache, 1, Len(cache) - 1) = Tail(last.before)

C9_Witness ==
    /\ Inserted /\ Full(last.before)
    /\ Len(cache) = CacheSize
    /\ last.before[1].time < last.before[Len(last.before)].time

\* C10: invalidate(source, context) removes the entry of that pair and no other,
\* clear() removes every entry, and after either the removed key is absent: a get
\* does not find it and the next render of it does not come from the cache.
C10_InvalidateAndClear ==
    /\ last.op = "invalidate" =>
          /\ cache = SelectSeq(last.before,
                               LAMBDA e : e.key # Fingerprint(last.source, last.ctx))
          /\ ~cache_get(cache, now, ProcessorTtl(CacheTtl), last.source, last.ctx).found
          /\ ~render(cache, now, last.source, last.ctx).hit
    /\ last.op = "clear" =>
          /\ cache = <<>>
          /\ \A source \in CacheTemplates, ctx \in CacheContexts :
                /\ ~cache_get(cache, now, ProcessorTtl(CacheTtl), source, ctx).found
                /\ ~render(cache, now, source, ctx).hit

\* an invalidate that removed one entry of two, and a clear of a cache that held some
C10_Witness ==
    \/ /\ last.op = "invalidate"
       /\ Len(last.before) = 2 /\ Len(cache) = 1
       /\ now - cache[1].time < ProcessorTtl(CacheTtl)
    \/ /\ last.op = "clear" /\ last.before # <<>>

----------------------------------------------------------------------------
\* Render calls in flight at the same time on one TemplateProcessor (the one PyBlade
\* constructs and keeps): each call is a thread running TemplateProcessor.render, and
\* a thread switch can fall between any two of its statements.

MaxCalls == 2      \* how many render calls are in flight

ThreadTemplates ==
    {<<VarNode(Name("name"), TRUE)>>, <<TextNode("Hello, "), VarNode(Name("name"), TRUE)>>}
ThreadContexts == {"name" :> VStr("Ann"), "name" :> VStr("Bob")}

\* a call that has not run its first statement: its arguments, where it is, the text
\* of the nodes rendered so far, the contexts its expressions were evaluated against
NewCall(nodes, ctx) ==
    [template |-> nodes, context |-> ctx, pc |-> "call", at |-> 0, text |-> "",
     used |-> <<>>, result |-> "", exc |-> ""]

InitThreads ==
    /\ NoEvaluation /\ NoLexer /\ NoPipeline
    /\ template = <<>>
    /\ contextIn = EmptyCtx
    /\ contextOut = EmptyCtx
    /\ output = [out |-> "", exc |-> ""]
    /\ rpc = "ready"
    /\ signalBase = "Exception"
    /\ cache = <<>>
    /\ now = 0
    /\ last = NoCall
    /\ selfContext = EmptyCtx
    /\ ast = <<>>
    /\ inflight \in [1..MaxCalls -> {NewCall(t, c) : t \in ThreadTemplates, c \in ThreadContexts}]

\* self.context = context; cached_result = self.cache.get(template, context) and the
\* return of a cached result
RenderEnter(c) ==
    /\ inflight[c].pc = "call"
    /\ selfContext' = inflight[c].context
    /\ LET Looked(cached_result) ==
               /\ cache' = cached_result.entries
               /\ inflight' = IF cached_result.found
                              THEN [inflight EXCEPT ![c].pc = "returned",
                                                    ![c].result = cached_result.text]
                              ELSE [inflight EXCEPT ![c].pc = "nodes", ![c].at = 1]
       IN  Looked(cache_get(cache, now, ProcessorTtl(CacheTtl),
                            inflight[c].template, inflight[c].context))
    /\ UNCHANGED <<evalVars, renderVars, now, last, pipeVars, lexVars, ast>>

\* result = self.render_node(node) for the next node of the loop: the renderers read
\* self.context
RenderStep(c) ==
    /\ inflight[c].pc = "nodes"
    /\ inflight[c].at <= Len(inflight[c].template)
    /\ LET Node(r) ==
               /\ selfContext' = r.ctx
               /\ inflight' =
                     IF r.exc # ""
                     THEN [inflight EXCEPT ![c].pc = "raised", ![c].exc = r.exc,
                                           ![c].used = Append(@, selfContext)]
                     ELSE [inflight EXCEPT ![c].at = @ + 1, ![c].text = @ \o r.out,
                                           ![c].used = Append(@, selfContext)]
       IN  Node(render_node(inflight[c].template[inflight[c].at], selfContext))
    /\ UNCHANGED <<evalVars, renderVars, cacheVars, pipeVars, lexVars, ast>>

\* result = "".join(output); self.cache.set(template, context, result); return result
RenderFinish(c) ==
    /\ inflight[c].pc = "nodes"
    /\ inflight[c].at > Len(inflight[c].template)
    /\ cache' = cache_set(cache, now, ProcessorMaxSize(CacheSize),
                          inflight[c].template, inflight[c].context, inflight[c].text)
    /\ inflight' = [inflight EXCEPT ![c].pc = "returned", ![c].result = inflight[c].text]
    /\ UNCHANGED <<evalVars, renderVars, now, last, pipeVars, lexVars, selfContext, ast>>

NextThreads == \E c \in 1..MaxCalls : RenderEnter(c) \/ RenderStep(c) \/ RenderFinish(c)

SpecThreads == InitThreads /\ [][NextThreads]_vars

\* C11: every expression a render call has evaluated was evaluated against the context
\* passed to that call, whatever the other calls in flight were doing.
C11_ContextPerRender ==
    \A c \in DOMAIN inflight :
        \A i \in DOMAIN inflight[c].used : inflight[c].used[i] = inflight[c].context

----------------------------------------------------------------------------
\* Concurrent node.render(context) calls on one shared AST whose root is an
\* AutoescapeNode: template is the AST as the parser built it, ast the same objects
\* with their fields as they are now.

SharedAsts ==
    {<<AutoescapeNode(e, b)>> :
        e \in BOOLEAN,
        b \in {<<VarNode(Name("x"), TRUE)>>,
               <<TextNode("<i>"), VarNode(Name("x"), TRUE)>>,
               <<VarNode(Name("x"), TRUE), VarNode(Name("y"), TRUE)>>}}
SharedContexts == {"x" :> VStr("<b>") @@ "y" :> VStr("&"), "x" :> VStr("a") @@ "y" :> VStr("<")}

InitAst ==
    /\ NoEvaluation /\ NoLexer /\ NoPipeline
    /\ template \in SharedAsts
    /\ ast = template
    /\ contextIn = EmptyCtx
    /\ contextOut = EmptyCtx
    /\ output = [out |-> "", exc |-> ""]
    /\ rpc = "ready"
    /\ signalBase = "Exception"
    /\ cache = <<>>
    /\ now = 0
    /\ last = NoCall
    /\ selfContext = EmptyCtx
    /\ inflight \in [1..MaxCalls ->
                        {[context |-> c, pc |-> "call", at |-> 0, text |-> "",
                          old_escaped |-> TRUE, exc |-> ""] : c \in SharedContexts}]

\* AutoescapeNode.render up to the loop: an enabled node renders its body as it is
AutoescapeStart(c) ==
    /\ inflight[c].pc = "call"
    /\ LET Joined(r) == [inflight EXCEPT ![c].pc = IF r.exc # "" THEN "raised" ELSE "returned",
                                         ![c].text = r.out, ![c].exc = r.exc]
       IN  inflight' = IF ast[1].enabled
                       THEN Joined(Node_render_body(ast[1].body, inflight[c].context))
                       ELSE [inflight EXCEPT ![c].pc = "next", ![c].at = 1]
    /\ UNCHANGED <<evalVars, renderVars, cacheVars, pipeVars, lexVars, selfContext, ast>>

\* the head of the loop over self.body: for a VarNode, old_escaped = node.escaped and
\* node.escaped = False; another node renders at once; after the last node, the join
AutoescapeForce(c) ==
    /\ inflight[c].pc = "next"
    /\ LET at == inflight[c].at
           Other(r) == [inflight EXCEPT ![c].at = @ + 1, ![c].text = @ \o r.out]
       IN  IF at > Len(ast[1].body)
           THEN /\ inflight' = [inflight EXCEPT ![c].pc = "returned"]
                /\ ast' = ast
           ELSE IF ast[1].body[at].k = "Var"
           THEN /\ inflight' = [inflight EXCEPT ![c].pc = "forced",
                                                ![c].old_escaped = ast[1].body[at].escaped]
                /\ ast' = [ast EXCEPT ![1].body[at].escaped = FALSE]
           ELSE /\ inflight' = Other(Node_render(ast[1].body[at], inflight[c].context))
                /\ ast' = ast
    /\ UNCHANGED <<evalVars, renderVars, cacheVars, pipeVars, lexVars, selfContext>>

\* output.append(node.render(context)) inside the try
AutoescapeChild(c) ==
    /\ inflight[c].pc = "forced"
    /\ LET Child(r) ==
               IF r.exc # "" THEN [inflight EXCEPT ![c].pc = "raising", ![c].exc = r.exc]
               ELSE [inflight EXCEPT ![c].pc = "rendered", ![c].text = @ \o r.out]
       IN  inflight' = Child(VarNode_render(ast[1].body[inflight[c].at], inflight[c].context))
    /\ UNCHANGED <<evalVars, renderVars, cacheVars, pipeVars, lexVars, selfContext, ast>>

\* finally: node.escaped = old_escaped
AutoescapeRestore(c) ==
    /\ inflight[c].pc \in {"rendered", "raising"}
    /\ ast' = [ast EXCEPT ![1].body[inflight[c].at].escaped = inflight[c].old_escaped]
    /\ inflight' = IF inflight[c].pc = "raising" THEN [inflight EXCEPT ![c].pc = "raised"]
                   ELSE [inflight EXCEPT ![c].pc = "next", ![c].at = @ + 1]
    /\ UNCHANGED <<evalVars, renderVars, cacheVars, pipeVars, lexVars, selfContext>>

NextAst ==
    \E c \in 1..MaxCalls :
        AutoescapeStart(c) \/ AutoescapeForce(c) \/ AutoescapeChild(c) \/ AutoescapeRestore(c)

SpecAst == InitAst /\ [][NextAst]_vars

\* C12: renders never write to a node: at every moment every field of the shared AST
\* is as the parser set it, and a render that has returned gives the text a render of
\* the parsed AST gives on its own.
C12_AstImmutable ==
    /\ ast = template
    /\ \A c \in DOMAIN inflight :
          inflight[c].pc = "returned" =>
              inflight[c].text = AutoescapeNode_render(template[1], inflight[c].context).out

----------------------------------------------------------------------------
\* C13: once a template that is one @include or @component node has rendered without
\* raising, the caller's context holds exactly the bindings it held before the node:
\* nothing bound while the partial rendered is visible to the caller.
C13_PartialsKeepCallerContext ==
    (/\ rpc = "TemplateProcessor"
     /\ output.exc = ""
     /\ Len(template) = 1 /\ template[1].k \in {"Include", "Component"})
        => contextOut = contextIn

----------------------------------------------------------------------------
\* Lexer and Parser (engine/parser.py).  A template source is the sequence of its
\* lexemes: text runs, interpolations, directives.  A token is a record of type, value
\* (a text run, a directive's name) and args: the expression of an interpolation or
\* inside the parentheses of a directive, NoExpr when there is none.

Token(type, value, args) == [type |-> type, value |-> value, args |-> args]
Text(s) == Token("TEXT", s, NoExpr)
Interpolation(expr) == Token("VAR", "{{", expr)
Directive(name, args) == Token("DIRECTIVE", name, args)
In(item_var, collection) == Compare(Name(item_var), <<"In">>, <<collection>>)
\* "{{" with no closing "}}" before the end of the source
Unterminated == Token("OPEN", "{{", NoExpr)

\* Lexer(template).tokenize(): an interpolation becomes a start token, its expression
\* and an end token; an unterminated tag is a lex error
RECURSIVE tokenize(_)
tokenize(source) ==
    IF source = <<>> THEN [tokens |-> <<>>, err |-> ""]
    ELSE LET Rest(head, rest) ==
                 IF rest.err # "" THEN rest ELSE [tokens |-> head \o rest.tokens, err |-> ""]
         IN  CASE Head(source).type = "OPEN" -> [tokens |-> <<>>, err |-> "LexError"]
               [] Head(source).type = "VAR" ->
                      Rest(<<Token("VAR_START", "{{", NoExpr),
                             Token("EXPR", "", Head(source).args),
                             Token("VAR_END", "}}", NoExpr)>>, tokenize(Tail(source)))
               [] OTHER -> Rest(<<Head(source)>>, tokenize(Tail(source)))

Parsed(nodes, pos) == [nodes |-> nodes, pos |-> pos, err |-> ""]
Failed(err) == [nodes |-> <<>>, pos |-> 0, err |-> err]

\* the error expect raises on the token at pos, "" when it matches; with no token left,
\* building the error reads token.line of None
expect(tokens, pos, token_type, value_prefix) ==
    IF pos > Len(tokens) THEN "AttributeError"
    ELSE IF tokens[pos].type # token_type THEN "TemplateRenderError"
    ELSE IF value_prefix # "" /\ tokens[pos].value # value_prefix THEN "TemplateRenderError"
    ELSE ""

\* the first token of end_token_type from pos on, Len(tokens) + 1 when there is none
RECURSIVE EndOf(_, _, _)
EndOf(tokens, pos, end_token_type) ==
    IF pos > Len(tokens) \/ tokens[pos].type = end_token_type THEN pos
    ELSE EndOf(tokens, pos + 1, end_token_type)

\* pos is at the start token; the expression is the one token the lexer put inside
parse_variable(tokens, pos, escaped) ==
    LET Closed(end) ==
            IF expect(tokens, end, "VAR_END", "") # ""
            THEN Failed(expect(tokens, end, "VAR_END", ""))
            ELSE Parsed(<<VarNode(tokens[pos + 1].args, escaped)>>, end + 1)
    IN  Closed(EndOf(tokens, pos + 1, "VAR_END"))

\* the directive's argument must be parenthesised
HasExpression(args) == args.k # "NoExpr"

\* re.match(r"^\s*\(\s*([a-zA-Z_][a-zA-Z0-9_]*)\s+in\s+(.+?)\s*\)\s*$", ...): a name, "in",
\* and the rest of the argument
ForSyntax(args) == args.k = "Compare" /\ args.left.k = "Name" /\ Head(args.ops) = "In"
ForCollection(args) ==
    IF Len(args.ops) = 1 THEN Head(args.comparators)
    ELSE Compare(Head(args.comparators), Tail(args.ops), Tail(args.comparators))

\* names _parse_until_directives starts a nested construct for
BlockDirectives == {"if", "unless", "for", "break", "continue"}
\* names parse dispatches on top of those
TopDirectives == BlockDirectives \cup {"extends"}
\* names parse rejects at top level
Rejected == {"elif", "else", "endif", "empty", "endfor"}

RECURSIVE parse_until_directives(_, _, _, _), parse_directive(_, _, _),
          parse_if(_, _, _), IfTail(_, _, _), parse_for(_, _, _), parse_unless(_, _, _)

\* body is the list built so far; the result's pos is at the stop directive
parse_until_directives(tokens, pos, directives_to_stop_at, body) ==
    LET Then(r) ==
            IF r.err # "" THEN r
            ELSE parse_until_directives(tokens, r.pos, directives_to_stop_at, body \o r.nodes)
    IN  IF pos > Len(tokens) THEN Failed("SyntaxError")
        ELSE CASE tokens[pos].type = "DIRECTIVE" ->
                      IF tokens[pos].value \in directives_to_stop_at THEN Parsed(body, pos)
                      ELSE IF tokens[pos].value \in BlockDirectives
                           THEN Then(parse_directive(tokens, pos + 1, tokens[pos]))
                      ELSE parse_until_directives(tokens, pos + 1, directives_to_stop_at, body)
               [] tokens[pos].type = "TEXT" ->
                      parse_until_directives(tokens, pos + 1, directives_to_stop_at,
                                             Append(body, TextNode(tokens[pos].value)))
               [] tokens[pos].type = "VAR_START" -> Then(parse_variable(tokens, pos, TRUE))
               [] OTHER -> Failed("TemplateRenderError")

\* the sub-parser of a directive whose token has been consumed
parse_directive(tokens, pos, token) ==
    CASE token.value = "if" -> parse_if(tokens, pos, token.args)
      [] token.value = "unless" -> parse_unless(tokens, pos, token.args)
      [] token.value = "for" -> parse_for(tokens, pos, token.args)
      [] token.value = "extends" ->
             IF HasExpression(token.args) THEN Parsed(<<ExtendsNode(token.args)>>, pos)
             ELSE Failed("DirectiveParsingError")
      [] token.value = "break" -> Parsed(<<BreakNode(token.args)>>, pos)
      [] token.value = "continue" -> Parsed(<<ContinueNode(token.args)>>, pos)

\* the while loop of _parse_if over @elif and @else, then the closing @endif; node is
\* the IfNode built so far and pos is at the directive that stopped the last body
IfTail(tokens, pos, node) ==
    LET Elif(elif_body) ==
            IF elif_body.err # "" THEN elif_body
            ELSE IfTail(tokens, elif_body.pos,
                        [node EXCEPT !.elif_blocks =
                                         Append(@, <<tokens[pos].args, elif_body.nodes>>)])
        Else(else_body_nodes) ==
            IF else_body_nodes.err # "" THEN else_body_nodes
            ELSE IfTail(tokens, else_body_nodes.pos,
                        [node EXCEPT !.else_body = else_body_nodes.nodes])
        Close(e) == IF e # "" THEN Failed(e) ELSE Parsed(<<node>>, pos + 1)
    IN  IF pos <= Len(tokens) /\ tokens[pos].type = "DIRECTIVE" /\ tokens[pos].value # "endif"
        THEN CASE tokens[pos].value = "elif" ->
                      IF ~HasExpression(tokens[pos].args) THEN Failed("DirectiveParsingError")
                      ELSE Elif(parse_until_directives(tokens, pos + 1,
                                                       {"elif", "else", "endif"}, <<>>))
               [] tokens[pos].value = "else" ->
                      IF tokens[pos].args.k # "NoExpr" THEN Failed("DirectiveParsingError")
                      ELSE Else(parse_until_directives(tokens, pos + 1, {"endif"}, <<>>))
               [] OTHER -> Failed("DirectiveParsingError")
        ELSE Close(expect(tokens, pos, "DIRECTIVE", "endif"))

\* _parse_if with the body hoisted out of the block: the nodes between @if and its end
\* directive become siblings of an empty IfNode
parse_if_unnested(tokens, pos, condition) ==
    LET Hoist(body, r) == IF r.err # "" THEN r ELSE Parsed(r.nodes \o body, r.pos)
        Tail_(body_nodes) ==
            IF body_nodes.err # "" THEN body_nodes
            ELSE Hoist(body_nodes.nodes,
                       IfTail(tokens, body_nodes.pos, IfNode(condition, <<>>, <<>>, <<>>)))
    IN  IF ~HasExpression(condition) THEN Failed("DirectiveParsingError")
        ELSE Tail_(parse_until_directives(tokens, pos, {"elif", "else", "endif"}, <<>>))

parse_if(tokens, pos, condition) ==
    LET Tail_(body_nodes) ==
            IF body_nodes.err # "" THEN body_nodes
            ELSE IfTail(tokens, body_nodes.pos, IfNode(condition, body_nodes.nodes, <<>>, <<>>))
    IN  IF ~HasExpression(condition) THEN Failed("DirectiveParsingError")
        ELSE Tail_(parse_until_directives(tokens, pos, {"elif", "else", "endif"}, <<>>))

parse_for(tokens, pos, loop_expression) ==
    LET Close(p, body, empty_body, e) ==
            IF e # "" THEN Failed(e)
            ELSE Parsed(<<ForNode(loop_expression.left.id, ForCollection(loop_expression),
                                  body, empty_body)>>, p + 1)
        Empty(body, empty_body_nodes) ==
            IF empty_body_nodes.err # "" THEN empty_body_nodes
            ELSE Close(empty_body_nodes.pos, body, empty_body_nodes.nodes,
                       expect(tokens, empty_body_nodes.pos, "DIRECTIVE", "endfor"))
        Body_(body_nodes) ==
            IF body_nodes.err # "" THEN body_nodes
            ELSE IF tokens[body_nodes.pos].value = "empty"
                 THEN IF tokens[body_nodes.pos].args.k # "NoExpr"
                      THEN Failed("DirectiveParsingError")
                      ELSE Empty(body_nodes.nodes,
                                 parse_until_directives(tokens, body_nodes.pos + 1,
                                                        {"endfor"}, <<>>))
            ELSE Close(body_nodes.pos, body_nodes.nodes, <<>>,
                       expect(tokens, body_nodes.pos, "DIRECTIVE", "endfor"))
    IN  IF ~ForSyntax(loop_expression) THEN Failed("SyntaxError")
        ELSE Body_(parse_until_directives(tokens, pos, {"empty", "endfor"}, <<>>))

parse_unless(tokens, pos, condition) ==
    LET Close(body_nodes) ==
            IF body_nodes.err # "" THEN body_nodes
            ELSE IF expect(tokens, body_nodes.pos, "DIRECTIVE", "endunless") # ""
                 THEN Failed(expect(tokens, body_nodes.pos, "DIRECTIVE", "endunless"))
            ELSE Parsed(<<UnlessNode(condition, body_nodes.nodes)>>, body_nodes.pos + 1)
    IN  IF ~HasExpression(condition) THEN Failed("DirectiveParsingError")
        ELSE Close(parse_until_directives(tokens, pos, {"endunless"}, <<>>))

\* Parser(tokens).parse(), from token pos on with the nodes in tree already built
RECURSIVE parse(_, _, _)
parse(tokens, pos, tree) ==
    LET Then(r) == IF r.err # "" THEN r ELSE parse(tokens, r.pos, tree \o r.nodes)
    IN  IF pos > Len(tokens) THEN Parsed(tree, pos)
        ELSE CASE tokens[pos].type = "TEXT" ->
                      parse(tokens, pos + 1, Append(tree, TextNode(tokens[pos].value)))
               [] tokens[pos].type = "VAR_START" -> Then(parse_variable(tokens, pos, TRUE))
               [] tokens[pos].type = "DIRECTIVE" ->
                      IF tokens[pos].value \in TopDirectives
                      THEN Then(parse_directive(tokens, pos + 1, tokens[pos]))
                      ELSE IF tokens[pos].value \in Rejected
                           THEN Failed("DirectiveParsingError")
                      ELSE parse(tokens, pos + 1, tree)
               [] OTHER -> Failed("TemplateRenderError")

----------------------------------------------------------------------------
\* The render pipeline: TemplateProcessor.render and PyBlade.render over a template
\* source (cache lookup, Lexer, Parser, the node loop, cache store)

\* tokens = lexer.tokenize(); ast = parser.parse()
Compile(source) ==
    LET Lexed(t) == IF t.err # "" THEN Failed(t.err) ELSE parse(t.tokens, 1, <<>>)
    IN  Lexed(tokenize(source))

TemplateProcessor_render(entries, time, source, ctx) ==
    LET Computed(held, r) ==
            IF r.exc # ""
            THEN [out |-> "", exc |-> r.exc, ctx |-> r.ctx, entries |-> held]
            ELSE [out |-> r.out, exc |-> "", ctx |-> r.ctx,
                  entries |-> cache_set(held, time, ProcessorMaxSize(CacheSize),
                                        source, r.ctx, r.out)]
        \* r is what the nodes of the tree render to, rendered only when there is a tree
        Compiled(held, tree, r) ==
            IF tree.err # ""
            THEN [out |-> "", exc |-> tree.err, ctx |-> ctx, entries |-> held]
            ELSE Computed(held, r)
        Looked(cached_result, tree, r) ==
            IF cached_result.found
            THEN [out |-> cached_result.text, exc |-> "", ctx |-> ctx,
                  entries |-> cached_result.entries]
            ELSE Compiled(cached_result.entries, tree, r)
    IN  Looked(cache_get(entries, time, ProcessorTtl(CacheTtl), source, ctx),
               Compile(source), render_nodes(Compile(source).nodes, ctx))

\* the exceptions of engine/exceptions.py that the lexer and the parser raise
EngineErrors == {"LexError", "DirectiveParsingError", "TemplateRenderError"}

\* isinstance(e, PyBladeException), base being the class the engine's errors derive from
IsPyBladeException(exc, base) == exc \in EngineErrors /\ base = "PyBladeException"

\* an error handler that returns a page
handle_error_page(error, dbg, ctx) == Rendered("<h1>" \o error \o "</h1>", ctx)

\* PyBlade._handle_error: the debug page is loaded from the engine's templates directory
\* and asked to render; the production page is built by a method PyBlade does not have
handle_error(error, dbg, ctx) ==
    IF dbg THEN LoadedRender(load_template("error", VList(<<VStr("engine/templates")>>)), ctx)
    ELSE Unwound("AttributeError", ctx)

PyBlade_render(entries, time, source, ctx, base, dbg) ==
    LET Handled(r, page) == [r EXCEPT !.out = page.out, !.exc = page.exc]
        Tried(r) ==
            IF IsPyBladeException(r.exc, base) THEN Handled(r, handle_error(r.exc, dbg, r.ctx))
            ELSE r
    IN  Tried(TemplateProcessor_render(entries, time, source, ctx))

MaxNest == 2       \* how deep the generated block directives nest

\* the guard of the block opened at each nesting depth
Guards == <<"a", "b", "c", "d">>
End(name) == Directive(name, NoExpr)

\* well-nested sources of @if, @if/@else and @unless blocks around the text X, the block
\* at depth d guarded by Guards[d]
RECURSIVE Nested(_)
Nested(d) ==
    IF d = 0 THEN {<<Text("X")>>}
    ELSE Nested(d - 1)
         \cup UNION {{<<Directive("if", Name(Guards[d]))>> \o b \o <<End("endif")>>,
                      <<Text("("), Directive("if", Name(Guards[d]))>> \o b
                          \o <<End("else"), Text("E"), End("endif"), Text(")")>>,
                      <<Directive("unless", Name(Guards[d]))>> \o b \o <<End("endunless")>>} :
                     b \in Nested(d - 1)}

Layout == Directive("extends", Const(VStr("layout")))
ForXs == Directive("for", In("x", Name("xs")))

\* sources that do not compile, or should not: unterminated tags, unclosed blocks, end
\* and intermediate directives outside their block, malformed arguments, @extends away
\* from the top
Malformed ==
    {<<Text("a"), Unterminated>>,
     <<Text("a"), Directive("if", Name("a")), Text("X")>>,
     <<Directive("unless", Name("a")), Text("X")>>,
     <<ForXs, Interpolation(Name("x"))>>,
     <<Directive("if", Name("a")), Directive("if", Name("b")), Text("X"), End("endif")>>,
     <<Text("a"), End("endif")>>,
     <<Text("a"), End("else"), Text("b")>>,
     <<Text("a"), End("endfor")>>,
     <<Text("a"), End("endunless"), Text("b")>>,
     <<Text("a"), End("endswitch")>>,
     <<End("endsection"), Text("b")>>,
     <<Text("a"), Directive("case", Const(VInt(1))), Text("b")>>,
     <<Directive("if", Name("a")), Text("X"), End("endfor"), End("endif")>>,
     <<Directive("if", Name("a")), Text("X"), End("else"), Text("Y"), End("else"), Text("Z"),
       End("endif")>>,
     <<Directive("unless", Name("a")), Text("X"), End("else"), Text("Y"), End("endunless")>>,
     <<Directive("if", Name("a")), Text("X"), End("else"), Text("Y"),
       Directive("elif", Name("b")), Text("Z"), End("endif")>>,
     <<ForXs, Text("X"), End("endif"), End("endfor")>>,
     <<Directive("if", NoExpr), Text("X"), End("endif")>>,
     <<Directive("for", Name("xs")), Text("X"), End("endfor")>>,
     <<Directive("if", Name("a")), Text("X"), Directive("else", Name("b")), End("endif")>>,
     <<Text("a"), Layout>>,
     <<Layout, Layout, Text("a")>>,
     <<Directive("if", Name("a")), Layout, Text("X"), End("endif")>>}

\* sources that compile: interpolations that evaluate and that fail, @break and
\* @continue inside and outside a loop, @extends at the top
Compiling ==
    {<<Text("Hello, "), Interpolation(Name("a"))>>,
     <<Text("a"), Interpolation(Call(Name("a"), <<>>)), Text("b")>>,
     <<Interpolation(BinOp(Name("a"), "Add", Const(VStr("s")))), Text("b")>>,
     <<Text("a"), Directive("break", NoExpr), Text("b")>>,
     <<Text("a"), Directive("continue", NoExpr), Text("b")>>,
     <<Text("a"), Directive("break", Name("a")), Text("b")>>,
     <<Directive("if", Name("a")), Text("X"), Directive("break", NoExpr), End("endif"),
       Text("b")>>,
     <<ForXs, Interpolation(Name("x")), Directive("break", Name("a")), End("endfor")>>,
     <<Layout, Text("a")>>}

Sources == Nested(MaxNest) \cup Malformed \cup Compiling

\* every assignment of booleans to the guards in use, with a list to loop over
PipelineContexts ==
    {[n \in {Guards[i] : i \in 1..MaxNest} \cup {"xs"} |->
          IF n = "xs" THEN VList(<<VInt(1), VInt(2)>>) ELSE VBool(g[n])] :
     g \in [{Guards[i] : i \in 1..MaxNest} -> BOOLEAN]}

InitPipeline ==
    /\ NoEvaluation /\ NoLexer /\ NoThreads
    /\ sourceText \in Sources
    /\ errorBase \in {"PyBladeException", "Exception"}
    /\ debug \in BOOLEAN
    /\ template = <<>>
    /\ contextIn \in PipelineContexts
    /\ contextOut = contextIn
    /\ output = [out |-> "", exc |-> ""]
    /\ rpc = "ready"
    /\ signalBase \in SignalBases
    /\ cache = <<>>
    /\ now = 0
    /\ last = NoCall

\* TemplateProcessor(debug=debug).render(source, context)
ProcessorRenderSource ==
    /\ rpc = "ready"
    /\ LET Returns(r) == /\ output' = [out |-> r.out, exc |-> r.exc]
                          /\ contextOut' = r.ctx
                          /\ cache' = r.entries
       IN  Returns(TemplateProcessor_render(cache, now, sourceText, contextIn))
    /\ rpc' = "TemplateProcessor"
    /\ UNCHANGED <<evalVars, template, contextIn, signalBase, now, last, pipeVars, lexVars, threadVars>>

\* PyBlade().render(source, context), debug being what the framework reports
PyBladeRender ==
    /\ rpc = "ready"
    /\ LET Returns(r) == /\ output' = [out |-> r.out, exc |-> r.exc]
                          /\ contextOut' = r.ctx
                          /\ cache' = r.entries
       IN  Returns(PyBlade_render(cache, now, sourceText, contextIn, errorBase, debug))
    /\ rpc' = "PyBlade"
    /\ UNCHANGED <<evalVars, template, contextIn, signalBase, now, last, pipeVars, lexVars, threadVars>>

NextPipeline == ProcessorRenderSource \/ PyBladeRender

SpecPipeline == InitPipeline /\ [][NextPipeline]_vars

RECURSIVE Contained(_, _, _)
Contained(source, ctx, dbg) ==
    IF source = <<>> THEN ""
    ELSE LET Shown(r) ==
                 IF r.err = "" THEN html_escape(StrOf(r.v))
                 ELSE IF dbg THEN ErrorComment("rendering", r.err)
                 ELSE ""
         IN  (IF Head(source).type = "TEXT" THEN Head(source).value
              ELSE Shown(ExpressionEvaluate(Head(source).args, ctx)))
             \o Contained(Tail(source), ctx, dbg)

\* the source is text runs and interpolations, and some interpolation fails to evaluate
FailingInterpolation ==
    /\ \A i \in DOMAIN sourceText : sourceText[i].type \in {"TEXT", "VAR"}
    /\ \E i \in DOMAIN sourceText :
           /\ sourceText[i].type = "VAR"
           /\ ExpressionEvaluate(sourceText[i].args, contextIn).err # ""

\* C15: a render of a source with an interpolation whose evaluation fails returns
\* normally; the failing interpolation contributes a diagnostic comment when the debug
\* flag is on and nothing when it is off, and the other nodes render as usual.
C15_InterpolationErrorsContained ==
    (rpc \in {"TemplateProcessor", "PyBlade"} /\ FailingInterpolation)
        => /\ output.exc = ""
           /\ output.out = Contained(sourceText, contextIn, debug)

\* @break or @continue runs with no @for around it: unconditional at top level after
\* text only, or inside a selected @if
SignalOutsideLoop ==
    \/ \E i \in DOMAIN sourceText :
           /\ sourceText[i] \in {Directive("break", NoExpr), Directive("continue", NoExpr)}
           /\ \A j \in 1..(i - 1) : sourceText[j].type = "TEXT"
    \/ /\ sourceText = <<Directive("if", Name("a")), Text("X"), Directive("break", NoExpr),
                         End("endif"), Text("b")>>
       /\ Truthy(contextIn["a"])

\* C16: no render call ends in a BreakLoop or ContinueLoop signal, and a render whose
\* @break or @continue runs outside every loop fails with a RenderError.
C16_SignalsNeverEscape ==
    rpc \in {"TemplateProcessor", "PyBlade"}
        => /\ output.exc \notin ControlSignals
           /\ SignalOutsideLoop => output.exc = "RenderError"

\* the text a well-nested source of @if, @else and @unless selects: a stack holds, for
\* each open block, whether its current branch is selected; a text run is emitted when
\* every open block selects it, and each end directive closes the innermost open block
RECURSIVE Selected(_, _, _)
Selected(source, stack, ctx) ==
    IF source = <<>> THEN ""
    ELSE CASE Head(source).type = "TEXT" ->
                  (IF \A i \in DOMAIN stack : stack[i] THEN Head(source).value ELSE "")
                  \o Selected(Tail(source), stack, ctx)
           [] Head(source).value = "if" ->
                  Selected(Tail(source), <<Truthy(ctx[Head(source).args.id])>> \o stack, ctx)
           [] Head(source).value = "unless" ->
                  Selected(Tail(source), <<~Truthy(ctx[Head(source).args.id])>> \o stack, ctx)
           [] Head(source).value = "else" ->
                  Selected(Tail(source), <<~Head(stack)>> \o Tail(stack), ctx)
           [] OTHER -> Selected(Tail(source), Tail(stack), ctx)

Opens == {"if", "unless", "for", "switch", "section"}
Closes ==
    "endif" :> "if" @@ "endunless" :> "unless" @@ "endfor" :> "for"
    @@ "endswitch" :> "switch" @@ "endsection" :> "section"
Continues == "else" :> "if" @@ "elif" :> "if" @@ "empty" :> "for" @@ "case" :> "switch"

\* some block of the source has no end directive, or some end or intermediate directive
\* is outside a block it belongs to; stack holds the open blocks, innermost first
RECURSIVE Unmatched(_, _)
Unmatched(source, stack) ==
    IF source = <<>> THEN stack # <<>>
    ELSE IF Head(source).type # "DIRECTIVE" THEN Unmatched(Tail(source), stack)
    ELSE CASE Head(source).value \in Opens ->
                  Unmatched(Tail(source), <<Head(source).value>> \o stack)
           [] Head(source).value \in DOMAIN Closes ->
                  \/ stack = <<>>
                  \/ Head(stack) # Closes[Head(source).value]
                  \/ Unmatched(Tail(source), Tail(stack))
           [] Head(source).value \in DOMAIN Continues ->
                  \/ stack = <<>>
                  \/ Head(stack) # Continues[Head(source).value]
                  \/ Unmatched(Tail(source), stack)
           [] OTHER -> Unmatched(Tail(source), stack)

\* C18: a source with an unclosed block, or with an end or intermediate directive
\* outside a block it belongs to, does not parse: render ends in the parser's error and
\* the directive is not dropped.
C18_UnmatchedDirectivesRejected ==
    (rpc = "TemplateProcessor" /\ tokenize(sourceText).err = ""
     /\ Unmatched(sourceText, <<>>))
        => /\ Compile(sourceText).err # ""
           /\ output.exc = Compile(sourceText).err

\* an @extends that is not the first lexeme of the source: after text, after another
\* @extends, or inside a block
ExtendsMisplaced ==
    \E i \in DOMAIN sourceText : i > 1 /\ sourceText[i].value = "extends"

\* C19: a source whose @extends is not its first content, is repeated or is nested in a
\* block does not parse, so none of its nodes is rendered.
C19_ExtendsOnlyFirst ==
    (rpc = "TemplateProcessor" /\ ExtendsMisplaced)
        => /\ Compile(sourceText).err # ""
           /\ output.exc = Compile(sourceText).err
           /\ output.out = ""

----------------------------------------------------------------------------
\* @regroup: the node rendered by TemplateProcessor.render_node and by its own render,
\* over lists of city dicts

MaxItems == 3      \* how many items the regrouped list has at most

City(name, country) == VDict(<< <<VStr("name"), VStr(name)>>, <<VStr("country"), VStr(country)>> >>)
Cities == {City("Mumbai", "India"), City("Calcutta", "India"), City("New York", "USA")}
ByCountry == RegroupNode(Name("cities"), <<"country">>, "country_list")

\* the context binds cities; it may also bind the name country to the key
RegroupContexts ==
    UNION {{"cities" :> VList(items), "cities" :> VList(items) @@ "country" :> VStr("country")} :
           items \in UNION {[1..n -> Cities] : n \in 0..MaxItems}}

InitRegroup ==
    /\ NoEvaluation /\ NoLexer /\ NoPipeline /\ NoThreads
    /\ template = <<ByCountry>>
    /\ contextIn \in RegroupContexts
    /\ contextOut = contextIn
    /\ output = [out |-> "", exc |-> ""]
    /\ rpc = "ready"
    /\ signalBase = "Exception"
    /\ cache = <<>>
    /\ now = 0
    /\ last = NoCall

\* TemplateProcessor.render_node(node) with self.context the caller's dict
ProcessorRegroup ==
    /\ rpc = "ready"
    /\ LET Returns(r) == /\ output' = [out |-> r.out, exc |-> r.exc]
                          /\ contextOut' = r.ctx
       IN  Returns(render_node(template[1], contextIn))
    /\ rpc' = "TemplateProcessor"
    /\ UNCHANGED <<evalVars, template, contextIn, signalBase, cacheVars, pipeVars, lexVars, threadVars>>

\* node.render(context)
NodeRegroup ==
    /\ rpc = "ready"
    /\ LET Returns(r) == /\ output' = [out |-> r.out, exc |-> r.exc]
                          /\ contextOut' = r.ctx
       IN  Returns(Node_render(template[1], contextIn))
    /\ rpc' = "Node"
    /\ UNCHANGED <<evalVars, template, contextIn, signalBase, cacheVars, pipeVars, lexVars, threadVars>>

NextRegroup == ProcessorRegroup \/ NodeRegroup

SpecRegroup == InitRegroup /\ [][NextRegroup]_vars

\* the key values of items in order of first appearance
RECURSIVE FirstSeen(_, _, _)
FirstSeen(items, key, seen) ==
    IF items = <<>> THEN seen
    ELSE IF \E i \in DOMAIN seen : seen[i] = DictGet(Head(items)[2], key)
         THEN FirstSeen(Tail(items), key, seen)
    ELSE FirstSeen(Tail(items), key, Append(seen, DictGet(Head(items)[2], key)))

\* one <<grouper, list>> per distinct key value, in order of first appearance, the list
\* holding the items with that key in their original order
GroupsByKey(items, key) ==
    LET keys == FirstSeen(items, key, <<>>)
    IN  [g \in DOMAIN keys |->
             <<keys[g], SelectSeq(items, LAMBDA item : DictGet(item[2], key) = keys[g])>>]

\* the <<grouper, list>> of each group of a regroup result, a dict or a Group object
GrouperAndList(groups) ==
    [g \in DOMAIN groups |->
         IF TypeOf(groups[g]) = "dict"
         THEN <<DictGet(groups[g][2], VStr("grouper")), DictGet(groups[g][2], VStr("list"))[2]>>
         ELSE <<groups[g][2], groups[g][3][2]>>]

\* C20: after @regroup(cities by country as country_list), country_list holds one group
\* per distinct country in order of first appearance, each with that country as grouper
\* and, as list, all and only the cities of that country in their original order.
C20_RegroupByFirstAppearance ==
    rpc \in {"TemplateProcessor", "Node"}
        => /\ output.exc = ""
           /\ "country_list" \in DOMAIN contextOut
           /\ GrouperAndList(contextOut["country_list"][2])
                  = GroupsByKey(contextIn["cities"][2], VStr("country"))

----------------------------------------------------------------------------
\* Conditionals: @if with @elif and @else branches and @switch with @case and @default
\* branches, rendered by TemplateProcessor.render

MaxBranches == 2   \* how many @elif branches an @if has, and @case branches a @switch

\* the body of the branch named s: it binds s in the context and emits s
Branch(s) == <<SlotNode(Const(VStr(s)), <<TextNode("+")>>), TextNode(s)>>
BranchNames == {"if", "else", "default"} \cup {"n" \o IntStr(i) : i \in 1..MaxBranches}

Elifs(n) == [i \in 1..n |-> <<Name(Guards[i + 1]), Branch("n" \o IntStr(i))>>]
IfTemplates ==
    {<<IfNode(Name(Guards[1]), Branch("if"), Elifs(n), else_body)>> :
         n \in 0..MaxBranches, else_body \in {<<>>, Branch("else")}}
    \cup {<<IfNode(Name(Guards[1]), Branch("if"),
                   <<<<Call(Name(Guards[2]), <<>>), Branch("n1")>>>>, Branch("else"))>>}

SwitchTemplates ==
    UNION {{<<SwitchNode(Name("v"),
                         [i \in 1..n |-> <<Const(VInt(values[i])), Branch("n" \o IntStr(i))>>],
                         default_body)>> :
                values \in [1..n -> {1, 2}], default_body \in {<<>>, Branch("default")}} :
           n \in 0..MaxBranches}

BranchContexts ==
    {[n \in {Guards[i] : i \in 1..(MaxBranches + 1)} \cup {"v"} |->
          IF n = "v" THEN v ELSE VBool(g[n])] :
     g \in [{Guards[i] : i \in 1..(MaxBranches + 1)} -> BOOLEAN],
     v \in {VInt(1), VInt(2), VInt(3), VBool(TRUE)}}

InitBranch ==
    /\ NoEvaluation /\ NoLexer /\ NoPipeline /\ NoThreads
    /\ template \in IfTemplates \cup SwitchTemplates
    /\ contextIn \in BranchContexts
    /\ contextOut = contextIn
    /\ output = [out |-> "", exc |-> ""]
    /\ rpc = "ready"
    /\ signalBase \in SignalBases
    /\ cache = <<>>
    /\ now = 0
    /\ last = NoCall

SpecBranch == InitBranch /\ [][ProcessorRender]_vars

\* the branch an @if selects: the first whose guard holds, else the else body; none
\* when a guard up to there cannot be evaluated
RECURSIVE FirstTruthy(_, _, _)
FirstTruthy(guards, else_body, ctx) ==
    IF guards = <<>> THEN (IF else_body = <<>> THEN {} ELSE {"else"})
    ELSE IF ExpressionEvaluate(Head(guards)[1], ctx).err # "" THEN {}
    ELSE IF Truthy(ExpressionEvaluate(Head(guards)[1], ctx).v) THEN {Head(guards)[2]}
    ELSE FirstTruthy(Tail(guards), else_body, ctx)

\* the branch a @switch selects: the first case equal to the switch value, else default
FirstEqual(node, ctx) ==
    LET at == {i \in DOMAIN node.cases : PyEq(ctx["v"], node.cases[i][1].value)}
    IN  IF at # {} THEN {"n" \o IntStr(CHOOSE i \in at : \A j \in at : i <= j)}
        ELSE IF node.default_body = <<>> THEN {}
        ELSE {"default"}

SelectedBranch(node, ctx) ==
    IF node.k = "Switch" THEN FirstEqual(node, ctx)
    ELSE FirstTruthy(<<<<node.condition, "if">>>>
                     \o [i \in DOMAIN node.elif_blocks |->
                             <<node.elif_blocks[i][1], "n" \o IntStr(i)>>],
                     node.else_body, ctx)

\* the branches whose body has rendered: each binds its name in the context
RenderedBranches == {s \in BranchNames : s \in DOMAIN contextOut}

\* C21: rendering an @if or @switch node renders at most one of its branches: the first
\* whose guard is truthy (whose case equals the switch value), otherwise the else
\* (default) body, and the output is that branch's output.
C21_OneBranchRendered ==
    (rpc = "TemplateProcessor" /\ template \in IfTemplates \cup SwitchTemplates)
        => /\ output.exc = ""
           /\ Cardinality(RenderedBranches) <= 1
           /\ RenderedBranches = SelectedBranch(template[1], contextIn)
           /\ \A s \in RenderedBranches : output.out = s

C21_Witness ==
    /\ rpc = "TemplateProcessor"
    /\ template[1].k = "Switch"
    /\ Len(template[1].cases) = 2
    /\ PyEq(contextIn["v"], template[1].cases[1][1].value)
    /\ PyEq(contextIn["v"], template[1].cases[2][1].value)
    /\ RenderedBranches = {"n1"}

\* the source is one @if block, and after its @else comes an @elif or another @else
BranchAfterElse ==
    /\ {i \in DOMAIN sourceText : sourceText[i].type = "DIRECTIVE"
                                  /\ sourceText[i].value \in Opens} = {1}
    /\ sourceText[1].value = "if"
    /\ \E i, j \in DOMAIN sourceText :
           /\ i < j
           /\ sourceText[i] = End("else")
           /\ sourceText[j].type = "DIRECTIVE" /\ sourceText[j].value \in {"elif", "else"}

\* C22: an @if block whose @else is followed by an @elif or by a second @else does not
\* parse: the parser raises its directive error for the out-of-order directive.
C22_IfBlockOrder ==
    (rpc = "TemplateProcessor" /\ BranchAfterElse)
        => /\ Compile(sourceText).err = "DirectiveParsingError"
           /\ output.exc = "DirectiveParsingError"

\* ---------------------------------------------------------------------------
\* new.py: the character-level Lexer
\* ---------------------------------------------------------------------------
\* A token of new.py is held as its type name and its value; the line and column it also
\* carries are left out, no branch of the lexer or the parser reads them.  Positions are
\* 1-based here, so position p of the model is self.pos = p - 1 of the code.
LexToken(type, value) == [type |-> type, value |-> value]

\* Lexer.current_char: the character at the position, None (here "") past the end
current_char(text, pos) == IF pos <= Len(text) THEN SubSeq(text, pos, pos) ELSE ""

\* Lexer.peek_string: the next characters, fewer at the end of the text
peek_string(text, pos, length) ==
    SubSeq(text, pos, IF pos + length - 1 <= Len(text) THEN pos + length - 1 ELSE Len(text))

\* str.isalpha and str.isalnum on one ASCII character
isalpha(c) == c # "" /\ IndexIn(c, Letters.lower \o Letters.upper, 1) # 0
isalnum(c) == isalpha(c) \/ (c # "" /\ IndexIn(c, "0123456789", 1) # 0)

\* Lexer.skip_whitespace(): `while self.current_char() in " \t\r"` advances over blanks;
\* past the end current_char() is None and `None in " \t\r"` raises TypeError
RECURSIVE skip_whitespace(_, _)
skip_whitespace(text, pos) ==
    IF pos > Len(text) THEN [pos |-> pos, err |-> "TypeError"]
    ELSE IF current_char(text, pos) \in {" ", "\t", "\r"} THEN skip_whitespace(text, pos + 1)
    ELSE [pos |-> pos, err |-> ""]

\* Lexer.read_identifier: the position after the run of alphanumerics and underscores
RECURSIVE read_identifier(_, _)
read_identifier(text, pos) ==
    IF isalnum(current_char(text, pos)) \/ current_char(text, pos) = "_"
    THEN read_identifier(text, pos + 1)
    ELSE pos

\* Lexer.read_directive: "@", the name, then skip_whitespace(); a name that starts with
\* "end" gives END_DIRECTIVE
read_directive(text, pos) ==
    LET name == SubSeq(text, pos + 1, read_identifier(text, pos + 1) - 1)
        Read(skipped) ==
            [tokens |-> <<LexToken(IF Len(name) >= 3 /\ SubSeq(name, 1, 3) = "end"
                                   THEN "END_DIRECTIVE" ELSE "DIRECTIVE", name)>>,
             pos |-> skipped.pos, err |-> skipped.err]
    IN  Read(skip_whitespace(text, read_identifier(text, pos + 1)))

\* the keyword test of tokenize_expression on an identifier it read
Keyword(value) ==
    CASE value \in {"true", "True"} -> LexToken("BOOLEAN", "True")
      [] value \in {"false", "False"} -> LexToken("BOOLEAN", "False")
      [] value \in {"none", "None", "null"} -> LexToken("NONE", "None")
      [] value = "and" -> LexToken("AND", "and")
      [] value = "or" -> LexToken("OR", "or")
      [] value = "not" -> LexToken("NOT", "not")
      [] OTHER -> LexToken("IDENTIFIER", value)

\* the operator chain of tokenize_expression: the token for the character(s) at the
\* position, with the number of characters consumed; an unknown character is skipped
Operator(char, next_char) ==
    CASE char = ">" /\ next_char = "=" -> <<LexToken("GTE", ">=")>>
      [] char = "<" /\ next_char = "=" -> <<LexToken("LTE", "<=")>>
      [] char = "=" /\ next_char = "=" -> <<LexToken("EQ", "==")>>
      [] char = "!" /\ next_char = "=" -> <<LexToken("NEQ", "!=")>>
      [] char = "." -> <<LexToken("DOT", ".")>>
      [] char = "(" -> <<LexToken("LPAREN", "(")>>
      [] char = ")" -> <<LexToken("RPAREN", ")")>>
      [] char = "," -> <<LexToken("COMMA", ",")>>
      [] char = ":" -> <<LexToken("COLON", ":")>>
      [] char = "=" -> <<LexToken("EQUALS", "=")>>
      [] char = ">" -> <<LexToken("GT", ">")>>
      [] char = "<" -> <<LexToken("LT", "<")>>
      [] OTHER -> <<>>

\* Lexer.tokenize_expression(raw): the tokens up to and including the closing sequence.
\* The loop ends without a closing token when the text ends right after a token, and at
\* a newline, which it leaves unread; skip_whitespace() raises when blanks run to the end.
\* The texts of this model hold no quote and no digit, so read_string and read_number
\* are not entered.
RECURSIVE tokenize_expression(_, _, _, _)
tokenize_expression(text, pos, raw, expr_tokens) ==
    LET Lexed(at) == [tokens |-> expr_tokens, pos |-> at, err |-> ""]
        After(p) ==
            CASE raw /\ peek_string(text, p, 3) = "!!}" ->
                    [tokens |-> expr_tokens \o <<LexToken("RAW_VAR_END", "!!}")>>,
                     pos |-> p + 3, err |-> ""]
              [] ~raw /\ peek_string(text, p, 2) = "}}" ->
                    [tokens |-> expr_tokens \o <<LexToken("VAR_END", "}}")>>,
                     pos |-> p + 2, err |-> ""]
              [] isalpha(current_char(text, p)) \/ current_char(text, p) = "_" ->
                    tokenize_expression(text, read_identifier(text, p), raw,
                        expr_tokens \o <<Keyword(SubSeq(text, p, read_identifier(text, p) - 1))>>)
              [] Operator(current_char(text, p), current_char(text, p + 1)) # <<>> ->
                    tokenize_expression(text,
                        p + Len(Operator(current_char(text, p), current_char(text, p + 1))[1].value),
                        raw,
                        expr_tokens \o Operator(current_char(text, p), current_char(text, p + 1)))
              [] current_char(text, p) = "\n" -> Lexed(p)
              [] OTHER -> tokenize_expression(text, p + 1, raw, expr_tokens)
        Skipped(s) ==
            IF s.err # "" THEN [tokens |-> expr_tokens, pos |-> s.pos, err |-> s.err]
            ELSE After(s.pos)
    IN  IF current_char(text, pos) = "" THEN Lexed(pos)
        ELSE Skipped(skip_whitespace(text, pos))

\* whether a special sequence starts at the position: "{!!", "{{", or "@" and a letter
Special(text, pos) ==
    \/ peek_string(text, pos, 3) = "{!!"
    \/ peek_string(text, pos, 2) = "{{"
    \/ current_char(text, pos) = "@" /\ isalpha(current_char(text, pos + 1))

\* the plain-text loop of Lexer.tokenize: the position of the next special sequence
RECURSIVE TextEnd(_, _)
TextEnd(text, pos) ==
    IF current_char(text, pos) = "" \/ Special(text, pos) THEN pos ELSE TextEnd(text, pos + 1)

\* Lexer.tokenize from a position on: raw interpolation, then escaped interpolation,
\* then directive, then plain text; the EOF token closes the list
RECURSIVE TokenizeFrom(_, _, _)
TokenizeFrom(text, pos, tokens) ==
    LET Extend(r) ==
            IF r.err # "" THEN [tokens |-> <<>>, err |-> r.err]
            ELSE TokenizeFrom(text, r.pos, tokens \o r.tokens)
    IN  CASE pos > Len(text) -> [tokens |-> tokens \o <<LexToken("EOF", "")>>, err |-> ""]
          [] peek_string(text, pos, 3) = "{!!" ->
                Extend(tokenize_expression(text, pos + 3, TRUE, <<LexToken("RAW_VAR_START", "{!!")>>))
          [] peek_string(text, pos, 2) = "{{" ->
                Extend(tokenize_expression(text, pos + 2, FALSE, <<LexToken("VAR_START", "{{")>>))
          [] current_char(text, pos) = "@" /\ isalpha(current_char(text, pos + 1)) ->
                Extend(read_directive(text, pos))
          [] OTHER ->
                TokenizeFrom(text, TextEnd(text, pos),
                             tokens \o <<LexToken("TEXT", SubSeq(text, pos, TextEnd(text, pos) - 1))>>)

\* Lexer(text).tokenize()
Lexer_tokenize(text) == TokenizeFrom(text, 1, <<>>)

\* ---------------------------------------------------------------------------
\* new.py: the recursive-descent Parser
\* ---------------------------------------------------------------------------
\* A parsing method is followed by the position it leaves and the SyntaxError it raises;
\* the nodes it builds are left out, no branch reads them.  A loop of the parser whose
\* iteration changes nothing repeats that iteration forever: the method does not return,
\* which is held as returns = FALSE at the position where the parser spins.
At(pos) == [pos |-> pos, err |-> "", returns |-> TRUE]
SyntaxErrorAt(pos) == [pos |-> pos, err |-> "SyntaxError", returns |-> TRUE]
Spins(pos) == [pos |-> pos, err |-> "", returns |-> FALSE]

\* the call did not come back normally: the caller is left at once
Stops(r) == r.err # "" \/ ~r.returns

\* statement sequencing: run the rest from the position a call left, unless it stopped
Then(r, Rest(_)) == IF Stops(r) THEN r ELSE Rest(r.pos)

\* Parser.current_token: the token at the position, the last one past the end
current_token(tokens, pos) == IF pos <= Len(tokens) THEN tokens[pos] ELSE tokens[Len(tokens)]

\* Parser.advance: one token on, not past the last one
advance(tokens, pos) == IF pos < Len(tokens) THEN pos + 1 ELSE pos

\* Parser.expect
new_expect(tokens, pos, token_type) ==
    IF current_token(tokens, pos).type # token_type THEN SyntaxErrorAt(pos)
    ELSE At(advance(tokens, pos))

\* one iteration of the loop of parse_arguments: the position after the argument
\* branches, then after an optional comma
Argument(tokens, pos) ==
    LET value_at(p) ==
            IF current_token(tokens, p).type \in {"STRING", "NUMBER", "BOOLEAN"}
            THEN advance(tokens, p) ELSE p
        named(p) ==
            IF current_token(tokens, p).type = "EQUALS" THEN value_at(advance(tokens, p)) ELSE p
        comma(p) == IF current_token(tokens, p).type = "COMMA" THEN advance(tokens, p) ELSE p
    IN  CASE current_token(tokens, pos).type \in {"STRING", "NUMBER", "BOOLEAN", "NONE"} ->
                comma(advance(tokens, pos))
          [] current_token(tokens, pos).type = "IDENTIFIER" -> comma(named(advance(tokens, pos)))
          [] OTHER -> comma(pos)

\* the loop of parse_arguments, `while self.current_token().type != TokenType.RPAREN`
RECURSIVE Arguments(_, _)
Arguments(tokens, pos) ==
    IF current_token(tokens, pos).type = "RPAREN" THEN new_expect(tokens, pos, "RPAREN")
    ELSE IF Argument(tokens, pos) = pos THEN Spins(pos)
    ELSE Arguments(tokens, Argument(tokens, pos))

\* Parser.parse_arguments
parse_arguments(tokens, pos) ==
    Then(new_expect(tokens, pos, "LPAREN"), LAMBDA p : Arguments(tokens, p))

\* the property chain of parse_variable_expression
RECURSIVE Properties(_, _)
Properties(tokens, pos) ==
    IF current_token(tokens, pos).type # "DOT" THEN At(pos)
    ELSE Then(new_expect(tokens, advance(tokens, pos), "IDENTIFIER"),
              LAMBDA p : IF current_token(tokens, p).type = "LPAREN"
                         THEN Then(parse_arguments(tokens, p), LAMBDA q : Properties(tokens, q))
                         ELSE Properties(tokens, p))

\* Parser.parse_variable_expression
parse_variable_expression(tokens, pos) ==
    Then(new_expect(tokens, pos, "IDENTIFIER"), LAMBDA p : Properties(tokens, p))

RECURSIVE parse_expression(_, _)

\* Parser.parse_primary_expression
parse_primary_expression(tokens, pos) ==
    CASE current_token(tokens, pos).type = "LPAREN" ->
            Then(parse_expression(tokens, advance(tokens, pos)),
                 LAMBDA p : new_expect(tokens, p, "RPAREN"))
      [] current_token(tokens, pos).type \in {"STRING", "NUMBER", "BOOLEAN", "NONE"} ->
            At(advance(tokens, pos))
      [] current_token(tokens, pos).type = "IDENTIFIER" -> parse_variable_expression(tokens, pos)
      [] OTHER -> SyntaxErrorAt(pos)

\* Parser.parse_comparison_expression
parse_comparison_expression(tokens, pos) ==
    Then(parse_primary_expression(tokens, pos),
         LAMBDA p : IF current_token(tokens, p).type \in {"GT", "LT", "GTE", "LTE", "EQ", "NEQ"}
                    THEN parse_primary_expression(tokens, advance(tokens, p))
                    ELSE At(p))

\* Parser.parse_not_expression
RECURSIVE parse_not_expression(_, _)
parse_not_expression(tokens, pos) ==
    IF current_token(tokens, pos).type = "NOT"
    THEN parse_not_expression(tokens, advance(tokens, pos))
    ELSE parse_comparison_expression(tokens, pos)

\* the loop of parse_and_expression: one more operand for each AND token
RECURSIVE AndOperands(_, _)
AndOperands(tokens, left) ==
    Then(left, LAMBDA p : IF current_token(tokens, p).type # "AND" THEN At(p)
                          ELSE AndOperands(tokens, parse_not_expression(tokens, advance(tokens, p))))

\* Parser.parse_and_expression
parse_and_expression(tokens, pos) == AndOperands(tokens, parse_not_expression(tokens, pos))

\* the loop of parse_or_expression: one more operand for each OR token
RECURSIVE OrOperands(_, _)
OrOperands(tokens, left) ==
    Then(left, LAMBDA p : IF current_token(tokens, p).type # "OR" THEN At(p)
                          ELSE OrOperands(tokens, parse_and_expression(tokens, advance(tokens, p))))

\* Parser.parse_or_expression
parse_or_expression(tokens, pos) == OrOperands(tokens, parse_and_expression(tokens, pos))

\* Parser.parse_expression
parse_expression(tokens, pos) == parse_or_expression(tokens, pos)

\* Parser.parse_variable: the opening token, the expression, the matching closing token
new_parse_variable(tokens, pos) ==
    Then(parse_expression(tokens, advance(tokens, pos)),
         LAMBDA p : new_expect(tokens, p, IF current_token(tokens, pos).type = "VAR_START"
                                         THEN "VAR_END" ELSE "RAW_VAR_END"))

\* Parser.parse_function_directive
parse_function_directive(tokens, pos) == parse_arguments(tokens, advance(tokens, pos))

\* the loop of parse_raw: on to the next END_DIRECTIVE, SyntaxError at EOF
RECURSIVE RawText(_, _)
RawText(tokens, pos) ==
    CASE current_token(tokens, pos).type = "END_DIRECTIVE" -> new_expect(tokens, pos, "END_DIRECTIVE")
      [] current_token(tokens, pos).type = "EOF" -> SyntaxErrorAt(pos)
      [] OTHER -> RawText(tokens, advance(tokens, pos))

\* Parser.parse_raw
parse_raw(tokens, pos) == Then(new_expect(tokens, pos, "COLON"), LAMBDA p : RawText(tokens, p))

RECURSIVE parse_body(_, _, _)

\* ": body @end..." as parse_if, parse_for and parse_block close a block
Block(tokens, pos, end_tokens) ==
    Then(new_expect(tokens, pos, "COLON"),
         LAMBDA p : Then(parse_body(tokens, p, end_tokens),
                         LAMBDA q : new_expect(tokens, q, "END_DIRECTIVE")))

\* Parser.parse_block
parse_block(tokens, pos) ==
    Then(new_expect(tokens, pos, "IDENTIFIER"), LAMBDA p : Block(tokens, p, {"endblock"}))

\* Parser.parse_for
new_parse_for(tokens, pos) ==
    Then(new_expect(tokens, pos, "IDENTIFIER"),
         LAMBDA p : Then(new_expect(tokens, p, "IDENTIFIER"),
                         LAMBDA q : IF current_token(tokens, p).value # "in" THEN SyntaxErrorAt(q)
                                    ELSE Then(parse_expression(tokens, q),
                                              LAMBDA r : Block(tokens, r, {"endfor"}))))

\* the loop of parse_if over the directive tokens that follow a body
RECURSIVE Branches(_, _)
Branches(tokens, pos) ==
    CASE current_token(tokens, pos).type # "DIRECTIVE" -> new_expect(tokens, pos, "END_DIRECTIVE")
      [] current_token(tokens, pos).value = "elif" ->
            Then(parse_expression(tokens, advance(tokens, pos)),
                 LAMBDA p : Then(new_expect(tokens, p, "COLON"),
                                 LAMBDA q : Then(parse_body(tokens, q, {"endif", "elif", "else"}),
                                                 LAMBDA r : Branches(tokens, r))))
      [] current_token(tokens, pos).value = "else" -> Block(tokens, advance(tokens, pos), {"endif"})
      [] OTHER -> Spins(pos)

\* Parser.parse_if
new_parse_if(tokens, pos) ==
    Then(parse_expression(tokens, pos),
         LAMBDA p : Then(new_expect(tokens, p, "COLON"),
                         LAMBDA q : Then(parse_body(tokens, q, {"endif", "elif", "else"}),
                                         LAMBDA r : Branches(tokens, r))))

\* Parser.parse_block_directive
parse_block_directive(tokens, pos) ==
    CASE current_token(tokens, pos).value = "if" -> new_parse_if(tokens, advance(tokens, pos))
      [] current_token(tokens, pos).value = "for" -> new_parse_for(tokens, advance(tokens, pos))
      [] current_token(tokens, pos).value = "block" -> parse_block(tokens, advance(tokens, pos))
      [] current_token(tokens, pos).value = "raw" -> parse_raw(tokens, advance(tokens, pos))
      [] OTHER -> SyntaxErrorAt(advance(tokens, pos))

\* Parser.parse_statement
parse_statement(tokens, pos) ==
    CASE current_token(tokens, pos).type \in {"VAR_START", "RAW_VAR_START"} ->
            new_parse_variable(tokens, pos)
      [] current_token(tokens, pos).type = "DIRECTIVE" -> parse_block_directive(tokens, pos)
      [] current_token(tokens, pos).type = "FUNCTION_DIRECTIVE" -> parse_function_directive(tokens, pos)
      [] current_token(tokens, pos).type = "EOF" -> At(pos)
      [] OTHER -> At(advance(tokens, pos))

\* Parser.parse_body(end_tokens): statements up to EOF or to one of the end directives
parse_body(tokens, pos, end_tokens) ==
    IF \/ current_token(tokens, pos).type = "EOF"
       \/ /\ current_token(tokens, pos).type = "END_DIRECTIVE"
          /\ current_token(tokens, pos).value \in end_tokens
    THEN At(pos)
    ELSE Then(parse_statement(tokens, pos), LAMBDA p : parse_body(tokens, p, end_tokens))

\* Parser(tokens).parse()
Parser_parse(tokens) == parse_body(tokens, 1, {})

\* ---------------------------------------------------------------------------
\* new.py: texts through Lexer and Parser
\* ---------------------------------------------------------------------------
\* the longest run of expression pieces between an opening and a closing sequence
MaxPieces == 3

\* what stands inside an interpolation: an identifier, a blank, a method call that opens
\* its argument list, a closing parenthesis, a comma, a line break
ExprPieces == {"a", " ", "a.b(", ")", ",", "\n"}

\* the texts of up to n of the pieces
RECURSIVE Joined(_, _)
Joined(pieces, n) ==
    IF n = 0 THEN {""} ELSE {""} \cup {p \o s : p \in pieces, s \in Joined(pieces, n - 1)}

\* text before the interpolation (nothing, a directive, the start of a comment), the
\* opening sequence, the closing sequence or none, text after it (nothing, plain text, a
\* directive that ends the template)
LexerTexts ==
    {before \o opening \o inner \o closing \o after :
        before \in {"", "@if ", "{# "}, opening \in {"{{", "{!!"}, inner \in Joined(ExprPieces, MaxPieces),
        closing \in {"", "}}", "!!}"}, after \in {"", "x", "@endif"}}

InitSyntax ==
    /\ NoEvaluation
    /\ NoRender
    /\ lexerText \in LexerTexts
    /\ lexerResult = [tokens |-> <<>>, err |-> ""]
    /\ parserResult = At(0)
    /\ lpc = "ready"

\* tokens = Lexer(text).tokenize()
LexerTokenize ==
    /\ lpc = "ready"
    /\ lexerResult' = Lexer_tokenize(lexerText)
    /\ lpc' = "lexed"
    /\ UNCHANGED <<evalVars, renderVars, cacheVars, pipeVars, threadVars, lexerText, parserResult>>

\* Parser(tokens).parse() on the tokens the lexer returned; a parse that does not return
\* leaves the program inside parse
ParserParse ==
    /\ lpc = "lexed"
    /\ lexerResult.err = ""
    /\ LET Left(r) ==
               /\ parserResult' = r
               /\ lpc' = IF r.returns THEN "parsed" ELSE "parsing"
       IN  Left(Parser_parse(lexerResult.tokens))
    /\ UNCHANGED <<evalVars, renderVars, cacheVars, pipeVars, threadVars, lexerText, lexerResult>>

NextSyntax == LexerTokenize \/ ParserParse

SpecSyntax == InitSyntax /\ [][NextSyntax]_vars

\* the longest run of pieces inside an argument list
MaxArguments == 3

\* what stands inside an argument list: a name, a comma, a dot, an equals sign, the
\* closing parenthesis
ArgumentPieces == {"a", ",", ".", "=", ")"}

\* an interpolation of a method call, its argument list closed or not, the
\* interpolation closed or not
ArgumentTexts ==
    {"{{a.b(" \o inner \o closing :
        inner \in Joined(ArgumentPieces, MaxArguments), closing \in {"", "}}"}}

InitArguments ==
    /\ NoEvaluation
    /\ NoRender
    /\ lexerText \in ArgumentTexts
    /\ lexerResult = [tokens |-> <<>>, err |-> ""]
    /\ parserResult = At(0)
    /\ lpc = "ready"

\* the step of a call as lpc shows it: tokenize on a fresh lexer, parse on the tokens
\* tokenize returned.  Every such step of NextSyntax is a step of LexerTokenize or of
\* ParserParse, and it is enabled exactly when their guards hold.
CallMade ==
    \/ lpc = "ready" /\ lpc' = "lexed"
    \/ lpc = "lexed" /\ lexerResult.err = "" /\ lpc' \in {"parsed", "parsing"}

\* the program keeps running: a call that can be made is made
FairSyntax == InitArguments /\ [][NextSyntax]_vars /\ WF_lpc(CallMade)

\* the first position at or after pos where sub occurs in the text, 0 if nowhere
RECURSIVE Find(_, _, _)
Find(text, sub, pos) ==
    IF pos + Len(sub) - 1 > Len(text) THEN 0
    ELSE IF peek_string(text, pos, Len(sub)) = sub THEN pos
    ELSE Find(text, sub, pos + 1)

\* whether, reading from pos, some "{!!", "{{" or "{#" has no closing sequence after it
RECURSIVE LeftOpen(_, _)
LeftOpen(text, pos) ==
    LET Closed(opening, closing) ==
            \/ Find(text, closing, pos + Len(opening)) = 0
            \/ LeftOpen(text, Find(text, closing, pos + Len(opening)) + Len(closing))
    IN  CASE pos > Len(text) -> FALSE
          [] peek_string(text, pos, 3) = "{!!" -> Closed("{!!", "!!}")
          [] peek_string(text, pos, 2) = "{{" -> Closed("{{", "}}")
          [] peek_string(text, pos, 2) = "{#" -> Closed("{#", "#}")
          [] OTHER -> LeftOpen(text, pos + 1)

\* the closing token type of an opening token type
ClosingOf(type) == IF type = "VAR_START" THEN "VAR_END" ELSE "RAW_VAR_END"

\* whether the opening token at i is followed by its closing token before the next
\* opening token and before EOF
ClosedAt(tokens, i) ==
    \E j \in (i + 1)..Len(tokens) :
        /\ tokens[j].type = ClosingOf(tokens[i].type)
        /\ \A k \in (i + 1)..(j - 1) : tokens[k].type \notin {"VAR_START", "RAW_VAR_START", "EOF"}

\* C23: every token stream tokenize returns has each opening interpolation token followed
\* by its closing token before the next opening token or EOF, and a text with an
\* unterminated interpolation or comment makes tokenize raise a lex error, not return a
\* stream and not fail with another error.
C23_InterpolationsClosed ==
    lpc # "ready" =>
        /\ lexerResult.err = "" =>
              \A i \in 1..Len(lexerResult.tokens) :
                  lexerResult.tokens[i].type \in {"VAR_START", "RAW_VAR_START"}
                      => ClosedAt(lexerResult.tokens, i)
        /\ LeftOpen(lexerText, 1) => lexerResult.err = "LexError"

\* C27: for every text, tokenize returns a stream that ends with EOF and parse on it comes
\* back, having consumed the whole stream or with a parse error: the parser never loops
\* without advancing.
C27_ParseTerminates ==
    <>(/\ lpc = "parsed"
       /\ lexerResult.tokens[Len(lexerResult.tokens)].type = "EOF"
       /\ parserResult.err = "SyntaxError" \/ parserResult.pos = Len(lexerResult.tokens))

\* ---------------------------------------------------------------------------
\* C24: the resolution order of attribute access
\* ---------------------------------------------------------------------------
\* what `owner.attr` is to yield: the value under the key attr of a mapping; else what
\* the whitelisted method attr of the owner's type returns when called without
\* arguments; else what the registered filter attr returns for the owner; else None
Resolution(owner, attr) ==
    IF TypeOf(owner) = "dict" /\ DictHas(owner[2], VStr(attr))
    THEN Returned(DictGet(owner[2], VStr(attr)))
    ELSE IF /\ is_safe_method(owner, attr)
            /\ HasAttr(owner, attr)
            /\ Invoke(GetAttr(owner, attr), <<>>).err # "TypeError"
    THEN Invoke(GetAttr(owner, attr), <<>>)
    ELSE IF FiltersHas(attr) THEN CallFilter(attr, <<owner>>)
    ELSE Returned(VNone)

\* C24: `owner.attr` with a non-private attr resolves to the mapping key, else to the
\* auto-invoked whitelisted zero-argument method, else to the filter called on the owner,
\* else to undefined; an attribute or method of the owner that is not whitelisted is
\* neither returned nor invoked and never goes before a filter of the same name.
C24_AttributeResolutionOrder ==
    (/\ epc = "done"
     /\ expression.k = "Attribute"
     /\ expression.value.k = "Name"
     /\ ~StartsWithUnderscore(expression.attr)
     /\ CtxGet(evalContext, expression.value.id) # VNone)
        => /\ [v |-> evalResult.v, err |-> evalResult.err]
                = Resolution(CtxGet(evalContext, expression.value.id), expression.attr)
           /\ \A i \in DOMAIN evalResult.calls : Whitelisted(evalResult.calls[i])

\* ---------------------------------------------------------------------------
\* C25: @section and @yield, rendered by TemplateProcessor.render
\* ---------------------------------------------------------------------------
\* the arguments of @yield as the template writes them: a name, or a name and a default
YieldArgs ==
    {Const(VStr(n)) : n \in {"title", "side"}}
    \cup {TupleExpr(<<Const(VStr(n)), Const(VStr("D"))>>) : n \in {"title", "side"}}

SectionBodies == {<<>>, <<TextNode("T")>>, <<TextNode("T"), VarNode(Name("x"), TRUE)>>}

\* no section or one section, then a @yield
SectionTemplates ==
    {stored \o <<YieldNode(args, NoExpr)>> :
        stored \in {<<>>} \cup {<<SectionNode(Const(VStr(n)), body)>> :
                                   n \in {"title", "side"}, body \in SectionBodies},
        args \in YieldArgs}

InitSection ==
    /\ NoEvaluation /\ NoLexer /\ NoPipeline /\ NoThreads
    /\ template \in SectionTemplates
    /\ contextIn \in {EmptyCtx, "x" :> VStr("v")}
    /\ contextOut = contextIn
    /\ output = [out |-> "", exc |-> ""]
    /\ rpc = "ready"
    /\ signalBase \in SignalBases
    /\ cache = <<>>
    /\ now = 0
    /\ last = NoCall

SpecSection == InitSection /\ [][ProcessorRender]_vars

\* the name a @yield asks for and the default it gives, as its arguments say
YieldName(node) == IF node.name.k = "Tuple" THEN node.name.elts[1].value ELSE node.name.value
YieldDefault(node) == IF node.name.k = "Tuple" THEN node.name.elts[2].value[2] ELSE ""

\* the text of the section body: its text nodes, and x as the context binds it
SectionText(body, ctx) ==
    CASE Len(body) = 0 -> ""
      [] Len(body) = 1 -> "T"
      [] OTHER -> "T" \o StrOf(CtxGet(ctx, "x"))

\* C25: a @section renders its body, stores the text under its name and emits nothing; a
\* later @yield of that name gives the stored text, and a @yield of a name with no stored
\* section gives the value of its default, or nothing when it has no default.
C25_SectionsAndYields ==
    rpc = "TemplateProcessor" =>
        LET yield == template[Len(template)]
            stored == Len(template) = 2
            section == template[1]
        IN  /\ output.exc = ""
            /\ stored =>
                  /\ "__sections" \in DOMAIN contextOut
                  /\ DictGet(contextOut["__sections"][2], section.name.value)
                        = VStr(SectionText(section.body, contextIn))
            /\ output.out =
                  IF stored /\ section.name.value = YieldName(yield)
                  THEN SectionText(section.body, contextIn)
                  ELSE YieldDefault(yield)

----------------------------------------------------------------------------
\* Cycles of templates.  Each template below is the node list of a file of
\* TemplateFiles that names itself: "self" includes "self", "components/self" uses the
\* component "self", "layout" extends "layout"; with text around the reference and
\* with the name taken from the context.

SelfReferences ==
    {IncludeNode(Const(VStr("self"))),
     IncludeNode(Name("name")),
     ComponentNode(Const(VStr("self")), <<>>),
     ComponentNode(Const(VStr("self")), <<TextNode("T")>>),
     ExtendsNode(Const(VStr("layout")))}

CycleTemplates ==
    {<<ref>> : ref \in SelfReferences}
    \cup {<<TextNode("a"), ref>> : ref \in SelfReferences}
    \cup {<<ref, TextNode("b")>> : ref \in SelfReferences}

CycleContexts ==
    {EmptyCtx, "name" :> VStr("self"), "name" :> VStr("self") @@ "x" :> VInt(5)}

InitCycle ==
    /\ NoEvaluation /\ NoLexer /\ NoPipeline /\ NoThreads
    /\ template \in CycleTemplates
    /\ contextIn \in CycleContexts
    /\ contextOut = contextIn
    /\ output = [out |-> "", exc |-> ""]
    /\ rpc = "ready"
    /\ signalBase \in SignalBases
    /\ cache = <<>>
    /\ now = 0
    /\ last = NoCall

SpecCycle == InitCycle /\ [][ProcessorRender]_vars

\* the template a reference node names, when its name can be evaluated
Referenced(node, ctx) ==
    CASE node.k = "Include" -> ExpressionEvaluate(node.path, ctx)
      [] node.k = "Component" -> ExpressionEvaluate(node.name, ctx)
      [] node.k = "Extends" -> ExpressionEvaluate(node.layout, ctx)
      [] OTHER -> [v |-> VNone, err |-> "TypeError", calls |-> <<>>]

\* the template holds a reference to a file whose source is that same reference
Cyclic(nodes, ctx) ==
    \E i \in 1..Len(nodes) :
        /\ nodes[i] \in SelfReferences
        /\ Referenced(nodes[i], ctx).err = ""
        /\ Referenced(nodes[i], ctx).v \in {VStr("self"), VStr("layout")}

\* C26: rendering a template whose include, component or extends reference names the
\* template itself ends by raising an error: it stops at a recursion-depth limit and
\* does not return an output.
C26_CyclesStopAtDepthLimit ==
    (rpc = "TemplateProcessor" /\ Cyclic(template, contextIn)) => output.exc # ""

----------------------------------------------------------------------------
\* The loop record.  Every template is one @for over a list of n items whose body shows
\* a field of loop followed by a comma, or a @for around such a @for that shows
\* loop.parent.iteration inside the inner loop and loop.index after it.

MaxLoop == 3       \* how many items the looped list has at most

LoopFields == {"iteration", "remaining", "first", "last"}

ItemsOf(n) == Const(VList(RangeList(0, n)))
Shows(expr) == <<VarNode(expr, TRUE), TextNode(",")>>
LoopField(f) == Attribute(Name("loop"), f)

FieldLoop(f, n) == <<ForNode("x", ItemsOf(n), Shows(LoopField(f)), <<>>)>>
ParityLoop(n) ==
    <<ForNode("x", ItemsOf(n),
              <<VarNode(LoopField("even"), TRUE), VarNode(LoopField("odd"), TRUE), TextNode(",")>>,
              <<>>)>>
NestedLoop(m, n) ==
    <<ForNode("x", ItemsOf(m),
              <<ForNode("y", ItemsOf(n), Shows(Attribute(LoopField("parent"), "iteration")), <<>>),
                VarNode(LoopField("index"), TRUE), TextNode(";")>>,
              <<>>)>>

LoopTemplates ==
    {FieldLoop(f, n) : f \in LoopFields, n \in 0..MaxLoop}
    \cup {ParityLoop(n) : n \in 0..MaxLoop}
    \cup {NestedLoop(m, n) : m \in 1..MaxLoop, n \in 0..MaxLoop}

LoopContexts == {EmptyCtx, "x" :> VInt(5), "y" :> VStr("v") @@ "z" :> VNone}

InitLoop ==
    /\ NoEvaluation /\ NoLexer /\ NoPipeline /\ NoThreads
    /\ template \in LoopTemplates
    /\ contextIn \in LoopContexts
    /\ contextOut = contextIn
    /\ output = [out |-> "", exc |-> ""]
    /\ rpc = "ready"
    /\ signalBase \in SignalBases
    /\ cache = <<>>
    /\ now = 0
    /\ last = NoCall

SpecLoop == InitLoop /\ [][ProcessorRender]_vars

\* the value of a field of the loop record at 0-based index i of n items
FieldAt(f, i, n) ==
    CASE f = "iteration" -> VInt(i + 1)
      [] f = "remaining" -> VInt(n - (i + 1))
      [] f = "first" -> VBool(i = 0)
      [] f = "last" -> VBool(i = n - 1)

\* what the body of FieldLoop(f, n) gives from index i on
RECURSIVE FieldsFrom(_, _, _)
FieldsFrom(f, i, n) ==
    IF i >= n THEN "" ELSE StrOf(FieldAt(f, i, n)) \o "," \o FieldsFrom(f, i + 1, n)

\* the outputs of ParityLoop(n) in which each iteration has exactly one of even and odd
RECURSIVE OneOfEvenOdd(_)
OneOfEvenOdd(n) ==
    IF n = 0 THEN {""}
    ELSE {a \o b : a \in OneOfEvenOdd(n - 1), b \in {"TrueFalse,", "FalseTrue,"}}

\* n times the text s
RECURSIVE Times(_, _)
Times(s, n) == IF n = 0 THEN "" ELSE s \o Times(s, n - 1)

\* what NestedLoop(m, n) gives from outer index j on: the inner loop sees the outer
\* record as its parent, and after it loop is the outer record at index j
RECURSIVE NestedFrom(_, _, _)
NestedFrom(j, m, n) ==
    IF j >= m THEN ""
    ELSE Times(IntStr(j + 1) \o ",", n) \o IntStr(j) \o ";" \o NestedFrom(j + 1, m, n)

\* C28: at the iteration with 0-based index i of a @for over n items the loop record has
\* iteration = i+1, remaining = n - iteration, first iff i = 0, last iff i = n-1 and
\* exactly one of even and odd; in a nested @for loop.parent is the record of the outer
\* loop, and after the inner loop ends loop is the outer record with its index unchanged.
C28_LoopRecord ==
    rpc = "TemplateProcessor" =>
        /\ output.exc = ""
        /\ \A f \in LoopFields, n \in 0..MaxLoop :
               template = FieldLoop(f, n) => output.out = FieldsFrom(f, 0, n)
        /\ \A n \in 0..MaxLoop :
               template = ParityLoop(n) => output.out \in OneOfEvenOdd(n)
        /\ \A m \in 1..MaxLoop, n \in 0..MaxLoop :
               template = NestedLoop(m, n) => output.out = NestedFrom(0, m, n)

----------------------------------------------------------------------------
\* @with.  Every template is one @with node, alone or between two texts; its body shows
\* a bound name, binds a slot, or raises a loop signal.

WithVariables ==
    {<< <<"a", Const(VInt(1))>> >>,
     << <<"a", Const(VInt(1))>>, <<"b", Const(VInt(2))>> >>,
     << <<"x", Const(VStr("in"))>> >>,
     << <<"a", Name("x")>> >>}

WithBodies ==
    {<<VarNode(Name("a"), TRUE)>>,
     <<VarNode(Name("x"), TRUE)>>,
     <<VarNode(Name("a"), TRUE), SlotNode(Const(VStr("s")), <<TextNode("T")>>)>>,
     <<VarNode(Name("a"), TRUE), BreakNode(NoExpr)>>,
     <<ContinueNode(NoExpr)>>}

WithTemplates ==
    {<<WithNode(v, b)>> : v \in WithVariables, b \in WithBodies}
    \cup {<<TextNode("<"), WithNode(v, b), TextNode(">")>> : v \in WithVariables, b \in WithBodies}

WithContexts == {EmptyCtx, "x" :> VInt(5), "a" :> VStr("out") @@ "x" :> VInt(5)}

InitWith ==
    /\ NoEvaluation /\ NoLexer /\ NoPipeline /\ NoThreads
    /\ template \in WithTemplates
    /\ contextIn \in WithContexts
    /\ contextOut = contextIn
    /\ output = [out |-> "", exc |-> ""]
    /\ rpc = "ready"
    /\ signalBase \in SignalBases
    /\ cache = <<>>
    /\ now = 0
    /\ last = NoCall

SpecWith == InitWith /\ [][ProcessorRender]_vars

\* the @with node of a template of WithTemplates
WithOf(nodes) == IF Len(nodes) = 1 THEN nodes[1] ELSE nodes[2]

\* the value @with binds the name to: the value of the last keyword of that name
RECURSIVE BoundTo(_, _, _)
BoundTo(variables, name, ctx) ==
    IF variables = <<>> THEN VNone
    ELSE IF variables[Len(variables)][1] = name
         THEN ExpressionEvaluate(variables[Len(variables)][2], ctx).v
    ELSE BoundTo(SubSeq(variables, 1, Len(variables) - 1), name, ctx)

\* the body shows one name, and @with binds it
ShowsBound(node) ==
    /\ Len(node.body) = 1
    /\ node.body[1].k = "Var"
    /\ \E i \in 1..Len(node.variables) : node.variables[i][1] = node.body[1].expression.id

\* C29: a name bound by @with is visible while the body renders, and only then: a body
\* that shows the name renders the bound value, and after the @with node has finished,
\* normally, through an error or through a Break/Continue signal raised in its body, the
\* context holds exactly the bindings it held before, a shadowed one with its old value.
C29_WithScopesBindings ==
    rpc = "TemplateProcessor" =>
        /\ contextOut = contextIn
        /\ (Len(template) = 1 /\ ShowsBound(template[1])) =>
               /\ output.exc = ""
               /\ output.out = html_escape(StrOf(BoundTo(template[1].variables,
                                                         template[1].body[1].expression.id,
                                                         contextIn)))

\* the frame part of C29 alone: whatever the @with node did, the caller's bindings are
\* the ones it had
WithKeepsContext == rpc = "TemplateProcessor" => contextOut = contextIn

----------------------------------------------------------------------------
\* The key render stores under.  One TemplateProcessor renders plain templates and
\* templates whose rendering adds a key to the context, in any order, with the clock
\* advancing between the calls.

StoreTemplates ==
    {<<TextNode("Hello, "), VarNode(Name("name"), TRUE)>>,
     <<ExtendsNode(Const(VStr("layout")))>>,
     <<SectionNode(Title, <<TextNode("T")>>)>>,
     <<SlotNode(Const(VStr("s")), <<TextNode("T")>>)>>,
     <<ByCountry>>}

StoreContexts ==
    {"name" :> VStr("World"),
     "name" :> VStr("World")
         @@ "cities" :> VList(<<City("Mumbai", "India"), City("New York", "USA")>>)}

\* processor.render(source, ctx)
StoreRender ==
    /\ \E source \in StoreTemplates, ctx \in StoreContexts :
          LET Returns(r) == /\ cache' = r.entries
                            /\ contextOut' = r.ctx
                            /\ last' = Called("render", source, ctx, r)
          IN  Returns(render(cache, now, source, ctx))
    /\ UNCHANGED <<evalVars, template, contextIn, output, rpc, signalBase, now, pipeVars, lexVars,
                   threadVars>>

NextStore == StoreRender \/ Tick

SpecStore == InitCache /\ [][NextStore]_vars

\* the last call was a render that computed its text and handed it to cache.set
Stored ==
    /\ last.op = "render" /\ ~last.hit /\ last.exc = ""
    /\ Fingerprint(last.source, last.ctx) # Unhashable

\* C30: a render that computed its result stores it under the key it looked up: the
\* newest entry has the fingerprint of the source and the context the caller passed, and
\* a get of the same source with an equal context finds the text just returned.
C30_StoredUnderLookedUpKey ==
    Stored =>
        /\ cache # <<>>
        /\ cache[Len(cache)].key = Fingerprint(last.source, last.ctx)
        /\ LET Hit(cached_result) == cached_result.found /\ cached_result.text = last.out
           IN  Hit(cache_get(cache, now, ProcessorTtl(CacheTtl), last.source, last.ctx))

\* the same for the renders that left the context with the keys it had
StoredPlainUnderLookedUpKey ==
    (Stored /\ DOMAIN contextOut = DOMAIN last.ctx) =>
        /\ cache # <<>>
        /\ cache[Len(cache)].key = Fingerprint(last.source, last.ctx)

====
